---- MODULE Spec2Model ----
(***************************************************************************)
(* Pollbot: a watch loop polls one Poll Everywhere page with conditional   *)
(* GETs, extracts (activity id, accepting, title) from the markup, decides *)
(* whether to alert, and persists its state in poll_state.json.            *)
(*                                                                         *)
(* Two entry points are modelled in full: pollwatch_phone.main (single     *)
(* target, voice calls) and web_app.monitor_poll (one thread per           *)
(* registered monitor, started and stopped through active_monitors). The   *)
(* loops of pollwatch_telegram and pollwatch_sms are modelled where they   *)
(* differ from pollwatch_phone.                                            *)
(*                                                                         *)
(* Spec        the watch loop of either entry point, one watch             *)
(* MgrSpec     web_app's start and stop requests with the threads they     *)
(*             create, several monitors sharing poll_state.json            *)
(* ExtractSpec extract_activity of each program applied to one markup      *)
(* PhoneStartSpec pollwatch_phone from reading its environment, with the   *)
(*             call threads of an alerting tick as steps of their own      *)
(* ChanSpec    the loop of pollwatch_telegram or pollwatch_sms             *)
(* BothSpec    pollwatch_phone and pollwatch_telegram deciding on the same *)
(*             extraction results, tick by tick                            *)
(* RestartSpec the watch loop stopped and started again, with the thread   *)
(*             of another monitor writing poll_state.json                  *)
(* ListSpec    MgrSpec with list requests served step by step              *)
(***************************************************************************)
EXTENDS Integers, Sequences, FiniteSets, TLC

VARIABLES
    program,          \* which entry point this run executes
    phone,            \* pollwatch_phone.main: pc, stop and the loop's locals
    phone_file,       \* poll_state.json as written by pollwatch_phone
    env,              \* the settings read from the environment
    active_monitors,  \* web_app.active_monitors
    web,              \* web_app.monitor_poll thread: pc and the loop's locals
    web_file,         \* poll_state.json as written by web_app
    tick,             \* observer: what the most recent tick did
    hist,             \* observer: the last three ticks that ran extraction
    api,              \* observer: the last request to the monitor API and its reply
    stopped,          \* observer: the threads whose monitor a stop request deleted
    owner,            \* observer: per monitor, the thread of its latest accepted start
    probe,            \* a markup put to extract_activity, and what came back
    calls,            \* pollwatch_phone: the call threads of the alert being sent
    chan,             \* pollwatch_telegram / pollwatch_sms: main's loop and its file
    listing           \* web_app.list_monitors: the request being served

vars == <<program, phone, phone_file, env, active_monitors, web, web_file, tick, hist,
          api, stopped, owner, probe, calls, chan, listing>>

(***************************************************************************)
(* Values                                                                  *)
(***************************************************************************)
\* Python's None; also what dict.get returns for a key that is not there.
None == "None"

\* Number of distinct activity ids a page can show.
NumIds == 2
IdPool == <<"41", "42", "43", "44">>
ActivityIds == {IdPool[i] : i \in 1..NumIds}

\* Validators a server can send.
ETags == {"e1"}
LastModifieds == {"d1"}

\* Status codes a fetch can come back with (redirects are followed by the
\* client; 300 stands for a 3xx that is handed to the caller).
Statuses == {200, 300, 304, 404}

MonitorIds == {"m1"}

(***************************************************************************)
(* Markup and extraction                                                   *)
(***************************************************************************)
\* pollwatch_phone.ID_PATTERNS, in priority order.
ID_PATTERNS == <<"response_root_question", "all_submissions_question",
                 "action_questions_responses", "src_multiple_choice_polls_respond",
                 "src_text_polls_respond", "data_activity_id",
                 "name_activity_id_value", "json_activityId">>

\* web_app.ID_PATTERNS, in priority order.
WEB_ID_PATTERNS == <<"response_root_question", "all_submissions_question",
                     "action_questions_responses", "data_activity_id",
                     "name_activity_id_value", "json_activityId">>

PatternNames == {ID_PATTERNS[i] : i \in 1..Len(ID_PATTERNS)}

\* A page body, by what the regular expressions of the source find in it:
\*   waiting  the text matches WAITING_HINT
\*   hint     the text holds one of the ACCEPTING_HINTS phrases
\*   forms    data-input--choice or data-response-to is present
\*   frame    a <turbo-frame ... src=".../respond"> that is no poll frame
\*   marks    for each id pattern, the group it captures first (None: no match)
\*   heading  the text of the first usable heading (None: no heading)
Page(waiting, hint, name, id) ==
    [waiting |-> waiting, hint |-> hint, forms |-> FALSE, frame |-> FALSE,
     marks |-> [p \in PatternNames |-> IF p = name THEN id ELSE None],
     heading |-> None]

\* The bodies the polled page serves in the watch-loop specification: the
\* waiting screen, and pages with or without a poll and with or without an
\* invitation to respond.
PageBodies ==
    {Page(TRUE, FALSE, "response_root_question", None)}
    \cup {Page(FALSE, h, "response_root_question", i) :
              h \in BOOLEAN, i \in ActivityIds \cup {None}}

\* Number of id patterns one probed markup can match.
MaxMarks == 2

\* What the heading searches of extract_activity can find in a markup.
Headings == {None, "Which answer?"}

\* The ways a markup can match at most MaxMarks of the id patterns.
MarkSets ==
    {f \in [PatternNames -> ActivityIds \cup {None}] :
        Cardinality({p \in PatternNames : f[p] # None}) <= MaxMarks}

\* The markups put to extract_activity on its own: every combination of the
\* fragments the function looks for.
Markups ==
    [waiting : BOOLEAN, hint : BOOLEAN, forms : BOOLEAN, frame : BOOLEAN,
     marks : MarkSets, heading : Headings]

\* FirstMatch that lets the last pattern that matches win
LastMatch(patterns, html) ==
    LET hits == {i \in 1..Len(patterns) : html.marks[patterns[i]] # None}
    IN  IF hits = {} THEN None
        ELSE html.marks[patterns[CHOOSE i \in hits : \A j \in hits : i >= j]]

\* for pat in ID_PATTERNS: m = pat.search(html); if m: activity_id = m.group(1); break
FirstMatch(patterns, html) ==
    LET hits == {i \in 1..Len(patterns) : html.marks[patterns[i]] # None}
    IN  IF hits = {} THEN None
        ELSE html.marks[patterns[CHOOSE i \in hits : \A j \in hits : i <= j]]

\* The literal "respond" occurs in the src of a respond frame.
RespondSrc(html) ==
    \/ html.frame
    \/ html.marks["src_multiple_choice_polls_respond"] # None
    \/ html.marks["src_text_polls_respond"] # None

\* re.search(r'<turbo-frame[^>]+src="[^"]+/respond', html, re.I)
respond_present(html) == RespondSrc(html)

\* ACCEPTING_HINTS.search(html): the vocabulary holds the word "respond".
AcceptingHint(html) == html.hint \/ RespondSrc(html)

\* has_response_forms that knows the action path only
has_response_forms_action_only(html) ==
    html.marks["action_questions_responses"] # None

\* re.search(r'(action="/a/questions/\d+/responses|data-input--choice|data-response-to)', ...)
has_response_forms(html) ==
    html.forms \/ html.marks["action_questions_responses"] # None

Extraction(id, accepting, title) == [id |-> id, accepting |-> accepting, title |-> title]

\* extract_activity without the early return for the waiting screen
extract_activity_no_early_return(html) ==
    Extraction(FirstMatch(ID_PATTERNS, html),
               AcceptingHint(html) \/ has_response_forms(html) \/ respond_present(html),
               html.heading)

\* pollwatch_phone.extract_activity
extract_activity(html) ==
    LET activity_id == FirstMatch(ID_PATTERNS, html)
    IN  IF activity_id = None /\ html.waiting /\ ~respond_present(html)
        THEN Extraction(None, FALSE, None)
        ELSE Extraction(activity_id,
                        AcceptingHint(html) \/ has_response_forms(html) \/ respond_present(html),
                        html.heading)

\* web_app.extract_activity
web_extract_activity(html) ==
    IF html.waiting
    THEN Extraction(None, FALSE, None)
    ELSE Extraction(FirstMatch(WEB_ID_PATTERNS, html),
                    AcceptingHint(html) \/ has_response_forms(html),
                    html.heading)

\* pollwatch_telegram.ID_PATTERNS and pollwatch_sms.ID_PATTERNS, in priority
\* order (the action path of pollwatch_telegram ends the attribute at /responses).
TELEGRAM_ID_PATTERNS == <<"all_submissions_question", "action_questions_responses",
                          "data_activity_id", "name_activity_id_value", "json_activityId">>
SMS_ID_PATTERNS == <<"data_activity_id", "name_activity_id_value", "json_activityId">>

\* pollwatch_telegram.extract_activity
telegram_extract_activity(html) ==
    IF html.waiting
    THEN Extraction(None, FALSE, None)
    ELSE Extraction(FirstMatch(TELEGRAM_ID_PATTERNS, html), AcceptingHint(html), html.heading)

\* An exception leaves the function instead of a result.
Raised(exception) == [raised |-> exception]

\* pollwatch_sms.extract_activity: after the id patterns, the title searches
\* are called as re.search(pattern, re.I), with the flag where the string
\* belongs, which raises TypeError for every markup.
sms_extract_activity(html) ==
    LET activity_id == FirstMatch(SMS_ID_PATTERNS, html)
    IN  Raised("TypeError")

\* No list request has been made.
NoListing == [pc |-> "none"]

\* No markup is being probed.
NoProbe == [pc |-> "none"]

\* No alert is being sent.
NoCalls == [pc |-> "none"]

\* Neither pollwatch_telegram nor pollwatch_sms is running.
NoChannel == [pc |-> "none"]

(***************************************************************************)
(* Watch state                                                             *)
(***************************************************************************)
\* The fields of one watch's record in poll_state.json ({} reads as all None).
WatchState(last_seen_id, alerted, etag, last_modified) ==
    [last_seen_id |-> last_seen_id, alerted_accepting_for_id |-> alerted,
     etag |-> etag, last_modified |-> last_modified]

EmptyState == WatchState(None, None, None, None)

(***************************************************************************)
(* One tick of the watch loop                                              *)
(***************************************************************************)
\* if etag: h["If-None-Match"] = etag; if last_modified: h["If-Modified-Since"] = ...
ConditionalHeaders(etag, last_modified) ==
    [if_none_match |-> etag, if_modified_since |-> last_modified]

\* resp.ok of the HTTP client: the status is below 400.
resp_ok(status) == status < 400

\* etag = resp.headers.get("ETag") or etag
refreshed(header, held) == IF header # None THEN header ELSE held

\* if activity_id and activity_id != last_id:
new_activity(activity_id, last_id) ==
    activity_id # None /\ activity_id # last_id

\* now_accepting without the test of the alerted flag
now_accepting_unlatched(activity_id, accepting, alerted) ==
    activity_id # None /\ accepting

\* elif activity_id and accepting and not state.get("alerted_accepting_for_id") == activity_id:
now_accepting(activity_id, accepting, alerted) ==
    activity_id # None /\ accepting /\ ~(alerted = activity_id)

\* reason = "..." of the two alerting branches
LIVE == "New activity is live"
ACCEPTING == "Activity is now accepting responses"

\* What the branch taken did: last_id and state after it, the transition it
\* amounts to, and the reason of the alert it sent ("none": no alert).
Outcome(last_id, state, trans, alert) ==
    [last_id |-> last_id, state |-> state, trans |-> trans, alert |-> alert]

\* changed_update without the trailing "if activity_id and accepting" assignment
changed_update_no_latch(state, activity_id, accepting, reason) ==
    Outcome(activity_id, [state EXCEPT !.last_seen_id = activity_id],
            IF reason = LIVE THEN "WentLive" ELSE "NowAccepting", reason)

\* if changed: ... (the block that alerts and then updates last_id and state)
changed_update(state, activity_id, accepting, reason) ==
    LET s1 == IF activity_id # None
              THEN [state EXCEPT !.last_seen_id = activity_id]
              ELSE [state EXCEPT !.last_seen_id = None,
                                 !.alerted_accepting_for_id = None]
        s2 == IF activity_id # None /\ accepting
              THEN [s1 EXCEPT !.alerted_accepting_for_id = activity_id]
              ELSE s1
    IN  Outcome(activity_id, s2,
                IF reason = LIVE THEN "WentLive" ELSE "NowAccepting",
                reason)

\* locked_update that leaves the alerted flag as it is
locked_update_keeps_flag(last_id, state, activity_id) ==
    Outcome(last_id, state, "None", "none")

\* locked_update that clears the alerted flag whatever id it names
locked_update_always_clears(last_id, state, activity_id) ==
    Outcome(last_id, [state EXCEPT !.alerted_accepting_for_id = None], "None", "none")

\* elif activity_id and not accepting: clear the alerted flag of a locked activity
locked_update(last_id, state, activity_id) ==
    IF state.alerted_accepting_for_id = activity_id
    THEN Outcome(last_id, [state EXCEPT !.alerted_accepting_for_id = None], "None", "none")
    ELSE Outcome(last_id, state, "None", "none")

\* down_update that forgets last_id and state["last_seen_id"]
down_update_keeps_last(last_id, state) ==
    IF last_id # None
    THEN Outcome(last_id, [state EXCEPT !.alerted_accepting_for_id = None],
                 "WentDown", "none")
    ELSE Outcome(last_id, state, "None", "none")

\* down_update that also reports the poll going down
down_update_alerting(last_id, state) ==
    IF last_id # None
    THEN Outcome(None, [state EXCEPT !.last_seen_id = None,
                                     !.alerted_accepting_for_id = None],
                 "WentDown", "Poll went down")
    ELSE Outcome(last_id, state, "None", "none")

\* elif not activity_id: the poll is down
down_update(last_id, state) ==
    IF last_id # None
    THEN Outcome(None, [state EXCEPT !.last_seen_id = None,
                                     !.alerted_accepting_for_id = None],
                 "WentDown", "none")
    ELSE Outcome(last_id, state, "None", "none")

\* phone_decide that takes a page with a title for a new activity
phone_decide_by_title(last_id, state, ext) ==
    LET activity_id == ext.id
        accepting == ext.accepting
    IN  IF new_activity(activity_id, last_id) \/ (activity_id # None /\ ext.title # None)
        THEN changed_update(state, activity_id, accepting, LIVE)
        ELSE IF now_accepting(activity_id, accepting, state.alerted_accepting_for_id)
        THEN changed_update(state, activity_id, accepting, ACCEPTING)
        ELSE IF activity_id # None /\ ~accepting
        THEN locked_update(last_id, state, activity_id)
        ELSE IF activity_id = None
        THEN down_update(last_id, state)
        ELSE Outcome(last_id, state, "None", "none")

\* pollwatch_phone.main, the branch of a fetched page: decide, alert, update
phone_decide(last_id, state, ext) ==
    LET activity_id == ext.id
        accepting == ext.accepting
    IN  IF new_activity(activity_id, last_id)
        THEN changed_update(state, activity_id, accepting, LIVE)
        ELSE IF now_accepting(activity_id, accepting, state.alerted_accepting_for_id)
        THEN changed_update(state, activity_id, accepting, ACCEPTING)
        ELSE IF activity_id # None /\ ~accepting
        THEN locked_update(last_id, state, activity_id)
        ELSE IF activity_id = None
        THEN down_update(last_id, state)
        ELSE Outcome(last_id, state, "None", "none")

\* web_app.monitor_poll, the branch of a fetched page: decide, call, update
web_decide(last_id, monitor_state, ext) ==
    LET activity_id == ext.id
        accepting == ext.accepting
    IN  IF new_activity(activity_id, last_id)
        THEN changed_update(monitor_state, activity_id, accepting, LIVE)
        ELSE IF now_accepting(activity_id, accepting, monitor_state.alerted_accepting_for_id)
        THEN changed_update(monitor_state, activity_id, accepting, ACCEPTING)
        ELSE IF activity_id = None
        THEN down_update(last_id, monitor_state)
        ELSE Outcome(last_id, monitor_state, "None", "none")

(***************************************************************************)
(* Observers                                                               *)
(***************************************************************************)
\* What a tick did: kind is "exception", "not_modified", "fetched" or
\* "http_error"; extracted says whether extract_activity ran.
TickLog(kind, status, extracted, trans, alert) ==
    [kind |-> kind, status |-> status, extracted |-> extracted, trans |-> trans,
     alert |-> alert, request |-> ConditionalHeaders(None, None),
     pre_last |-> None, pre_alerted |-> None,
     hdr_etag |-> None, hdr_last_modified |-> None]

\* The log of a tick that fetched a page, with last_id and the alerted flag
\* as they were when the tick began and the validators the response carried.
FetchedLog(status, hdr_etag, hdr_last_modified, o, pre_last, pre_alerted) ==
    [TickLog("fetched", status, TRUE, o.trans, o.alert)
        EXCEPT !.pre_last = pre_last, !.pre_alerted = pre_alerted,
               !.hdr_etag = hdr_etag, !.hdr_last_modified = hdr_last_modified]

NoTick == TickLog("none", 0, FALSE, "None", "none")

\* A request is in flight with these conditional headers.
Pending(headers) == [NoTick EXCEPT !.kind = "pending", !.request = headers]

\* One tick that ran extraction: what it saw and the alert it sent.
Entry(ext, o) == [id |-> ext.id, accepting |-> ext.accepting, alert |-> o.alert]

Remember(h, e) == IF Len(h) < 3 THEN Append(h, e) ELSE Append(Tail(h), e)

\* The observers are off: ticks are not logged.
Unobserved == [NoTick EXCEPT !.kind = "off"]

Log(l) == IF tick.kind = "off" THEN tick ELSE l
Logged(e) == IF tick.kind = "off" THEN hist ELSE Remember(hist, e)

(***************************************************************************)
(* pollwatch_phone.main                                                    *)
(***************************************************************************)
\* state["etag"] = etag; state["last_modified"] = last_modified; save_state(state)
with_tokens(state, etag, last_modified) ==
    [state EXCEPT !.etag = etag, !.last_modified = last_modified]

\* while not stop: (the loop goes round) build the headers and send the request
PhoneRequest ==
    /\ program = "pollwatch_phone"
    /\ phone.pc = "loop"
    /\ ~phone.stop
    /\ phone' = [phone EXCEPT !.pc = "request"]
    /\ tick' = Log(Pending(ConditionalHeaders(phone.etag, phone.last_modified)))
    /\ UNCHANGED <<program, listing, calls, chan, api, stopped, owner, probe, phone_file, env, active_monitors, web, web_file, hist>>

\* while not stop: (stop is set) main returns
PhoneExit ==
    /\ program = "pollwatch_phone"
    /\ phone.pc = "loop"
    /\ phone.stop
    /\ phone' = [phone EXCEPT !.pc = "done"]
    /\ UNCHANGED <<program, listing, calls, chan, api, stopped, owner, probe, phone_file, env, active_monitors, web, web_file, tick, hist>>

\* PhoneFetchFails with no try around the tick: the exception ends main
PhoneFetchFails_uncaught ==
    /\ program = "pollwatch_phone"
    /\ phone.pc = "request"
    /\ phone' = [phone EXCEPT !.pc = "done"]
    /\ tick' = Log(TickLog("exception", 0, FALSE, "None", "none"))
    /\ UNCHANGED <<program, listing, calls, chan, api, stopped, owner, probe, phone_file, env, active_monitors, web, web_file, hist>>

\* sess.get raises (timeout, connection error): except Exception logs it
PhoneFetchFails ==
    /\ program = "pollwatch_phone"
    /\ phone.pc = "request"
    /\ phone' = [phone EXCEPT !.pc = "sleep"]
    /\ tick' = Log(TickLog("exception", 0, FALSE, "None", "none"))
    /\ UNCHANGED <<program, listing, calls, chan, api, stopped, owner, probe, phone_file, env, active_monitors, web, web_file, hist>>

\* PhoneNotModified with resp.ok tested first: a 304 is below 400, so its
\* empty body is extracted and decided on like a fetched page
PhoneNotModified_as_ok ==
    /\ program = "pollwatch_phone"
    /\ phone.pc = "request"
    /\ LET ext == Extraction(None, FALSE, None)
           o == phone_decide(phone.last_id, phone.state, ext)
           saved == with_tokens(o.state, phone.etag, phone.last_modified)
       IN  /\ phone' = [phone EXCEPT !.pc = "sleep", !.last_id = o.last_id,
                                     !.state = saved]
           /\ phone_file' = saved
           /\ tick' = Log(TickLog("not_modified", 304, TRUE, o.trans, o.alert))
           /\ hist' = Logged(Entry(ext, o))
    /\ UNCHANGED <<program, listing, calls, chan, api, stopped, owner, probe, env, active_monitors, web, web_file>>

\* if resp.status_code == 304: only the trailing save runs
PhoneNotModified ==
    /\ program = "pollwatch_phone"
    /\ phone.pc = "request"
    /\ LET saved == with_tokens(phone.state, phone.etag, phone.last_modified)
       IN  /\ phone' = [phone EXCEPT !.pc = "sleep", !.state = saved]
           /\ phone_file' = saved
    /\ tick' = Log(TickLog("not_modified", 304, FALSE, "None", "none"))
    /\ UNCHANGED <<program, listing, calls, chan, api, stopped, owner, probe, env, active_monitors, web, web_file, hist>>

\* elif resp.ok: refresh the tokens, extract, decide, alert, update, save
PhoneFetched(status, hdr_etag, hdr_last_modified, html) ==
    /\ program = "pollwatch_phone"
    /\ phone.pc = "request"
    /\ status # 304
    /\ resp_ok(status)
    /\ LET etag == refreshed(hdr_etag, phone.etag)
           last_modified == refreshed(hdr_last_modified, phone.last_modified)
           ext == extract_activity(html)
           o == phone_decide(phone.last_id, phone.state, ext)
           saved == with_tokens(o.state, etag, last_modified)
       IN  /\ phone' = [phone EXCEPT !.pc = "sleep", !.etag = etag,
                                     !.last_modified = last_modified,
                                     !.last_id = o.last_id, !.state = saved]
           /\ phone_file' = saved
           /\ tick' = Log(FetchedLog(status, hdr_etag, hdr_last_modified, o, phone.last_id,
                                     phone.state.alerted_accepting_for_id))
           /\ hist' = Logged(Entry(ext, o))
    /\ UNCHANGED <<program, listing, calls, chan, api, stopped, owner, probe, env, active_monitors, web, web_file>>

\* else: logging.warning("HTTP %s from %s"), then the trailing save
PhoneHttpError(status) ==
    /\ program = "pollwatch_phone"
    /\ phone.pc = "request"
    /\ status # 304
    /\ ~resp_ok(status)
    /\ LET saved == with_tokens(phone.state, phone.etag, phone.last_modified)
       IN  /\ phone' = [phone EXCEPT !.pc = "sleep", !.state = saved]
           /\ phone_file' = saved
    /\ tick' = Log(TickLog("http_error", status, FALSE, "None", "none"))
    /\ UNCHANGED <<program, listing, calls, chan, api, stopped, owner, probe, env, active_monitors, web, web_file, hist>>

\* time.sleep(interval)
PhoneSleep ==
    /\ program = "pollwatch_phone"
    /\ phone.pc = "sleep"
    /\ phone' = [phone EXCEPT !.pc = "loop"]
    /\ tick' = Log(NoTick)
    /\ UNCHANGED <<program, listing, calls, chan, api, stopped, owner, probe, phone_file, env, active_monitors, web, web_file, hist>>

\* handle_sig that ends main where it stands
handle_sig_ends_main ==
    /\ program = "pollwatch_phone"
    /\ phone.pc \notin {"start", "exit", "done"}
    /\ ~phone.stop
    /\ phone' = [phone EXCEPT !.stop = TRUE, !.pc = "done"]
    /\ UNCHANGED <<program, listing, calls, chan, api, stopped, owner, probe, phone_file, env, active_monitors, web, web_file, tick, hist>>

\* handle_sig: SIGINT or SIGTERM sets stop, whatever the loop is doing
handle_sig ==
    /\ program = "pollwatch_phone"
    /\ phone.pc \notin {"start", "exit", "done"}
    /\ ~phone.stop
    /\ phone' = [phone EXCEPT !.stop = TRUE]
    /\ UNCHANGED <<program, listing, calls, chan, api, stopped, owner, probe, phone_file, env, active_monitors, web, web_file, tick, hist>>

(***************************************************************************)
(* web_app: monitor_poll threads and the registry                          *)
(***************************************************************************)
Threads == {"t1"}

\* The entry start_monitor puts in active_monitors before it starts the thread.
Registered(status, last_activity) == [status |-> status, last_activity |-> last_activity]

\* {}
EmptyDict == [k \in {} |-> EmptyState]

\* del d[key], and d unchanged when the key is not in it
without(d, key) == [k \in DOMAIN d \ {key} |-> d[k]]

\* state = load_state(); if state_key not in state: state[state_key] = {}
web_load_state(file, key) ==
    [k \in DOMAIN file \cup {key} |-> IF k \in DOMAIN file THEN file[k] ELSE EmptyState]

\* WebConfigError that takes the monitor out of the registry
WebConfigError_drops_entry(t) ==
    /\ program = "web_app"
    /\ web[t].pc = "spawned"
    /\ ~env.twilio
    /\ web[t].mid \in DOMAIN active_monitors
    /\ active_monitors' = without(active_monitors, web[t].mid)
    /\ web' = [web EXCEPT ![t].pc = "done"]
    /\ UNCHANGED <<program, listing, calls, chan, api, stopped, owner, probe, phone, phone_file, env, web_file, tick, hist>>

\* if not all([...]): status = "error"; return
WebConfigError(t) ==
    /\ program = "web_app"
    /\ web[t].pc = "spawned"
    /\ ~env.twilio
    /\ web[t].mid \in DOMAIN active_monitors
    /\ active_monitors' = [active_monitors EXCEPT ![web[t].mid].status = "error"]
    /\ web' = [web EXCEPT ![t].pc = "done"]
    /\ UNCHANGED <<program, listing, calls, chan, api, stopped, owner, probe, phone, phone_file, env, web_file, tick, hist>>

\* load the state, take the locals from it, status = "running"
WebStart(t) ==
    /\ program = "web_app"
    /\ web[t].pc = "spawned"
    /\ env.twilio
    /\ web[t].mid \in DOMAIN active_monitors
    /\ LET state == web_load_state(web_file, web[t].mid)
           monitor_state == state[web[t].mid]
       IN  web' = [web EXCEPT ![t].pc = "loop", ![t].state = state,
                              ![t].last_id = monitor_state.last_seen_id,
                              ![t].etag = monitor_state.etag,
                              ![t].last_modified = monitor_state.last_modified]
    /\ active_monitors' = [active_monitors EXCEPT ![web[t].mid].status = "running"]
    /\ UNCHANGED <<program, listing, calls, chan, api, stopped, owner, probe, phone, phone_file, env, web_file, tick, hist>>

\* active_monitors[monitor_id]["status"] = ... on an entry that was deleted:
\* KeyError ends the thread
WebStartUnregistered(t) ==
    /\ program = "web_app"
    /\ web[t].pc = "spawned"
    /\ web[t].mid \notin DOMAIN active_monitors
    /\ web' = [web EXCEPT ![t].pc = "done"]
    /\ UNCHANGED <<program, listing, calls, chan, api, stopped, owner, probe, phone, phone_file, env, active_monitors, web_file, tick, hist>>

\* while monitor_id in active_monitors and active_monitors[monitor_id].get("status") == "running":
still_running(registry, monitor_id) ==
    monitor_id \in DOMAIN registry /\ registry[monitor_id].status = "running"

\* the loop goes round: build the headers and send the request
WebRequest(t) ==
    /\ program = "web_app"
    /\ web[t].pc = "loop"
    /\ still_running(active_monitors, web[t].mid)
    /\ web' = [web EXCEPT ![t].pc = "request"]
    /\ tick' = Log(Pending(ConditionalHeaders(web[t].etag, web[t].last_modified)))
    /\ UNCHANGED <<program, listing, calls, chan, api, stopped, owner, probe, phone, phone_file, env, active_monitors, web_file, hist>>

\* the loop ends: if monitor_id in active_monitors: del active_monitors[monitor_id]
WebExit(t) ==
    /\ program = "web_app"
    /\ web[t].pc = "loop"
    /\ ~still_running(active_monitors, web[t].mid)
    /\ web' = [web EXCEPT ![t].pc = "done"]
    /\ active_monitors' = without(active_monitors, web[t].mid)
    /\ UNCHANGED <<program, listing, calls, chan, api, stopped, owner, probe, phone, phone_file, env, web_file, tick, hist>>

\* sess.get raises: except Exception prints it and sleeps
WebFetchFails(t) ==
    /\ program = "web_app"
    /\ web[t].pc = "request"
    /\ web' = [web EXCEPT ![t].pc = "sleep"]
    /\ tick' = Log(TickLog("exception", 0, FALSE, "None", "none"))
    /\ UNCHANGED <<program, listing, calls, chan, api, stopped, owner, probe, phone, phone_file, env, active_monitors, web_file, hist>>

\* if resp.status_code == 304: pass
WebNotModified(t) ==
    /\ program = "web_app"
    /\ web[t].pc = "request"
    /\ web' = [web EXCEPT ![t].pc = "sleep"]
    /\ tick' = Log(TickLog("not_modified", 304, FALSE, "None", "none"))
    /\ UNCHANGED <<program, listing, calls, chan, api, stopped, owner, probe, phone, phone_file, env, active_monitors, web_file, hist>>

\* if monitor_id in active_monitors: record last_check and last_activity
web_report(registry, monitor_id, activity_id) ==
    IF monitor_id \in DOMAIN registry
    THEN [registry EXCEPT ![monitor_id].last_activity = activity_id]
    ELSE registry

\* elif resp.ok: refresh the tokens, extract, decide, call, update, save, report
WebFetched(t, status, hdr_etag, hdr_last_modified, html) ==
    /\ program = "web_app"
    /\ web[t].pc = "request"
    /\ status # 304
    /\ resp_ok(status)
    /\ LET mid == web[t].mid
           monitor_state == web[t].state[mid]
           etag == refreshed(hdr_etag, web[t].etag)
           last_modified == refreshed(hdr_last_modified, web[t].last_modified)
           ext == web_extract_activity(html)
           o == web_decide(web[t].last_id, monitor_state, ext)
           state == [web[t].state EXCEPT ![mid] = with_tokens(o.state, etag, last_modified)]
       IN  /\ web' = [web EXCEPT ![t].pc = "sleep", ![t].etag = etag,
                                 ![t].last_modified = last_modified,
                                 ![t].last_id = o.last_id, ![t].state = state]
           /\ web_file' = state
           /\ active_monitors' = web_report(active_monitors, mid, ext.id)
           /\ tick' = Log(FetchedLog(status, hdr_etag, hdr_last_modified, o, web[t].last_id,
                                     monitor_state.alerted_accepting_for_id))
           /\ hist' = Logged(Entry(ext, o))
    /\ UNCHANGED <<program, listing, calls, chan, api, stopped, owner, probe, phone, phone_file, env>>

\* any other status: neither branch is taken
WebHttpError(t, status) ==
    /\ program = "web_app"
    /\ web[t].pc = "request"
    /\ status # 304
    /\ ~resp_ok(status)
    /\ web' = [web EXCEPT ![t].pc = "sleep"]
    /\ tick' = Log(TickLog("http_error", status, FALSE, "None", "none"))
    /\ UNCHANGED <<program, listing, calls, chan, api, stopped, owner, probe, phone, phone_file, env, active_monitors, web_file, hist>>

\* time.sleep(interval)
WebSleep(t) ==
    /\ program = "web_app"
    /\ web[t].pc = "sleep"
    /\ web' = [web EXCEPT ![t].pc = "loop"]
    /\ tick' = Log(NoTick)
    /\ UNCHANGED <<program, listing, calls, chan, api, stopped, owner, probe, phone, phone_file, env, active_monitors, web_file, hist>>

(***************************************************************************)
(* web_app: the monitor API                                                *)
(***************************************************************************)
\* Number of threads start_monitor can create in one run.
NumThreads == 2
ThreadPool == <<"t1", "t2", "t3", "t4">>
MgrThreads == {ThreadPool[i] : i \in 1..NumThreads}

\* Monitor ids (the md5 of poll URL and phone number) the API is called with.
MgrMonitorIds == {"m1", "m2"}

\* {} for active_monitors
NoMonitors == [k \in {} |-> Registered("starting", None)]

\* A thread that has not been created yet.
IdleThread ==
    [mid |-> None, pc |-> "idle", last_id |-> None, etag |-> None,
     last_modified |-> None, state |-> EmptyDict]

\* The thread start_monitor creates: monitor_poll(poll_url, phone_number, monitor_id)
SpawnedThread(monitor_id) == [IdleThread EXCEPT !.mid = monitor_id, !.pc = "spawned"]

\* jsonify({"success": ..., "error": ...}) of a request to the API
Reply(call, monitor_id, success, error) ==
    [call |-> call, monitor_id |-> monitor_id, success |-> success, error |-> error]

NoCall == Reply("none", None, FALSE, "none")

REQUIRED == "Poll URL and phone number are required"
INVALID_URL == "Invalid poll URL"
ALREADY_EXISTS == "Monitor already exists for this URL and phone number"
NOT_FOUND == "Monitor not found"

\* The threads that are inside monitor_poll for this monitor.
Serving(monitor_id) ==
    {t \in DOMAIN web : web[t].mid = monitor_id /\ web[t].pc \notin {"idle", "done"}}

\* The next thread to be created.
FreeThreads == {i \in 1..Len(ThreadPool) :
                   ThreadPool[i] \in DOMAIN web /\ web[ThreadPool[i]].pc = "idle"}
NextThread == ThreadPool[CHOOSE i \in FreeThreads : \A j \in FreeThreads : i <= j]

\* active_monitors[monitor_id] = {...}
put(registry, monitor_id, entry) ==
    [k \in DOMAIN registry \cup {monitor_id} |->
        IF k = monitor_id THEN entry ELSE registry[k]]

\* start_monitor: the request lacks a field, or the URL does not start with http
start_monitor_rejected(error) ==
    /\ program = "web_app"
    /\ api' = Reply("start", None, FALSE, error)
    /\ UNCHANGED <<program, listing, calls, chan, stopped, owner, probe, phone, phone_file, env,
                   active_monitors, web, web_file, tick, hist>>

\* start_monitor: the monitor is in active_monitors with status "running"
start_monitor_exists(monitor_id) ==
    /\ program = "web_app"
    /\ still_running(active_monitors, monitor_id)
    /\ api' = Reply("start", monitor_id, FALSE, ALREADY_EXISTS)
    /\ UNCHANGED <<program, listing, calls, chan, stopped, owner, probe, phone, phone_file, env,
                   active_monitors, web, web_file, tick, hist>>

\* start_monitor that does not look the monitor up before it registers it
start_monitor_unchecked(monitor_id) ==
    /\ program = "web_app"
    /\ FreeThreads # {}
    /\ active_monitors' = put(active_monitors, monitor_id, Registered("starting", None))
    /\ web' = [web EXCEPT ![NextThread] = SpawnedThread(monitor_id)]
    /\ api' = Reply("start", monitor_id, TRUE, "none")
    /\ owner' = [owner EXCEPT ![monitor_id] = NextThread]
    /\ UNCHANGED <<program, listing, calls, chan, stopped, probe, phone, phone_file, env, web_file, tick, hist>>

\* start_monitor: register the monitor as "starting" and start its thread
start_monitor(monitor_id) ==
    /\ program = "web_app"
    /\ ~still_running(active_monitors, monitor_id)
    /\ FreeThreads # {}
    /\ active_monitors' = put(active_monitors, monitor_id, Registered("starting", None))
    /\ web' = [web EXCEPT ![NextThread] = SpawnedThread(monitor_id)]
    /\ api' = Reply("start", monitor_id, TRUE, "none")
    /\ owner' = [owner EXCEPT ![monitor_id] = NextThread]
    /\ UNCHANGED <<program, listing, calls, chan, stopped, probe, phone, phone_file, env, web_file, tick, hist>>

\* stop_monitor: if monitor_id not in active_monitors: 404
stop_monitor_not_found(monitor_id) ==
    /\ program = "web_app"
    /\ monitor_id \notin DOMAIN active_monitors
    /\ api' = Reply("stop", monitor_id, FALSE, NOT_FOUND)
    /\ UNCHANGED <<program, listing, calls, chan, stopped, owner, probe, phone, phone_file, env,
                   active_monitors, web, web_file, tick, hist>>

\* stop_monitor that empties the registry
stop_monitor_clears_all(monitor_id) ==
    /\ program = "web_app"
    /\ monitor_id \in DOMAIN active_monitors
    /\ active_monitors' = NoMonitors
    /\ api' = Reply("stop", monitor_id, TRUE, "none")
    /\ stopped' = stopped \cup Serving(monitor_id)
    /\ owner' = [owner EXCEPT ![monitor_id] = None]
    /\ UNCHANGED <<program, listing, calls, chan, probe, phone, phone_file, env, web, web_file, tick, hist>>

\* stop_monitor: del active_monitors[monitor_id]
stop_monitor(monitor_id) ==
    /\ program = "web_app"
    /\ monitor_id \in DOMAIN active_monitors
    /\ active_monitors' = without(active_monitors, monitor_id)
    /\ api' = Reply("stop", monitor_id, TRUE, "none")
    /\ stopped' = stopped \cup Serving(monitor_id)
    /\ owner' = [owner EXCEPT ![monitor_id] = None]
    /\ UNCHANGED <<program, listing, calls, chan, probe, phone, phone_file, env, web, web_file, tick, hist>>

(***************************************************************************)
(* web_app.list_monitors                                                   *)
(***************************************************************************)
\* monitors = []; for mid, info in active_monitors.items(): with no entry in
\* the dict the loop ends at once: return jsonify({"monitors": []})
list_monitors_empty ==
    /\ program = "web_app"
    /\ listing.pc # "iterating"
    /\ DOMAIN active_monitors = {}
    /\ listing' = [pc |-> "returned", used |-> 0, monitors |-> {}]
    /\ UNCHANGED <<program, calls, chan, api, stopped, owner, probe, phone, phone_file, env, active_monitors, web, web_file, tick, hist>>

\* monitors = []; for mid, info in active_monitors.items(): the iterator notes
\* the size of the dict and gives its first item, which is appended
list_monitors(mid) ==
    /\ program = "web_app"
    /\ listing.pc # "iterating"
    /\ mid \in DOMAIN active_monitors
    /\ listing' = [pc |-> "iterating", used |-> Cardinality(DOMAIN active_monitors),
                   monitors |-> {mid}]
    /\ UNCHANGED <<program, calls, chan, api, stopped, owner, probe, phone, phone_file, env, active_monitors, web, web_file, tick, hist>>

\* The iterator is asked for the next item and the dict has as many entries
\* as when the loop began: monitors.append({"id": mid, ...}) for an entry not
\* yet seen. Which of them comes next is the insertion order, left open here;
\* a delete and an insert that together leave the size as it was are not
\* told apart from an untouched dict.
list_monitors_append(mid) ==
    /\ program = "web_app"
    /\ listing.pc = "iterating"
    /\ Cardinality(DOMAIN active_monitors) = listing.used
    /\ mid \in DOMAIN active_monitors \ listing.monitors
    /\ listing' = [listing EXCEPT !.monitors = @ \cup {mid}]
    /\ UNCHANGED <<program, calls, chan, api, stopped, owner, probe, phone, phone_file, env, active_monitors, web, web_file, tick, hist>>

\* The iterator is asked for the next item after another thread has added or
\* deleted an entry: RuntimeError "dictionary changed size during iteration",
\* and the request is answered with status 500.
list_monitors_raises ==
    /\ program = "web_app"
    /\ listing.pc = "iterating"
    /\ Cardinality(DOMAIN active_monitors) # listing.used
    /\ listing' = [listing EXCEPT !.pc = "RuntimeError"]
    /\ UNCHANGED <<program, calls, chan, api, stopped, owner, probe, phone, phone_file, env, active_monitors, web, web_file, tick, hist>>

\* The iterator is exhausted: return jsonify({"monitors": monitors})
list_monitors_returns ==
    /\ program = "web_app"
    /\ listing.pc = "iterating"
    /\ Cardinality(DOMAIN active_monitors) = listing.used
    /\ DOMAIN active_monitors \subseteq listing.monitors
    /\ listing' = [listing EXCEPT !.pc = "returned"]
    /\ UNCHANGED <<program, calls, chan, api, stopped, owner, probe, phone, phone_file, env, active_monitors, web, web_file, tick, hist>>

(***************************************************************************)
(* Stopping a watch and starting it again                                  *)
(***************************************************************************)
\* The place of a restart among the ticks that ran extraction.
RestartMark == [id |-> None, accepting |-> FALSE, alert |-> "restart"]

\* pollwatch_phone is run again after main has returned: load_state, and
\* last_id, etag and last_modified taken from the record
PhoneRestart ==
    /\ program = "pollwatch_phone"
    /\ phone.pc = "done"
    /\ phone' = [pc |-> "loop", stop |-> FALSE, last_id |-> phone_file.last_seen_id,
                 etag |-> phone_file.etag, last_modified |-> phone_file.last_modified,
                 state |-> phone_file]
    /\ hist' = Logged(RestartMark)
    /\ UNCHANGED <<program, listing, calls, chan, api, stopped, owner, probe, phone_file, env, active_monitors, web, web_file, tick>>

\* start_monitor for a monitor whose thread has ended: the monitor is
\* registered as "starting" and a new thread is started for it
WebRestart(t) ==
    /\ program = "web_app"
    /\ web[t].pc = "done"
    /\ ~still_running(active_monitors, web[t].mid)
    /\ active_monitors' = put(active_monitors, web[t].mid, Registered("starting", None))
    /\ web' = [web EXCEPT ![t] = SpawnedThread(web[t].mid)]
    /\ api' = Reply("start", web[t].mid, TRUE, "none")
    /\ owner' = [owner EXCEPT ![web[t].mid] = t]
    /\ hist' = Logged(RestartMark)
    /\ UNCHANGED <<program, listing, calls, chan, stopped, probe, phone, phone_file, env, web_file, tick>>

\* The store as the thread of another monitor holds it: read by load_state
\* when poll_state.json was still empty, with the record of its own monitor
\* added.
OtherCopy == [k \in {"m2"} |-> EmptyState]

\* save_state(state) in the thread of another monitor: the whole of its copy
\* replaces poll_state.json
OtherMonitorSaves ==
    /\ program = "web_app"
    /\ web_file' = OtherCopy
    /\ UNCHANGED <<program, listing, calls, chan, api, stopped, owner, probe, phone, phone_file, env, active_monitors, web, tick, hist>>

(***************************************************************************)
(* pollwatch_phone.main: the start, and the calls of an alerting tick      *)
(***************************************************************************)
\* Number of recipients TWILIO_TO_NUMBER can name.
NumRecipients == 2
RecipientPool == <<"+15550001", "+15550002", "+15550003">>

\* phone_numbers = [num.strip() for num in twilio_to_number.split(',')], or []
\* when TWILIO_TO_NUMBER is not set
PhoneNumberLists ==
    {<<>>} \cup {[i \in 1..n |-> RecipientPool[i]] : n \in 1..NumRecipients}

\* The settings pollwatch_phone reads from its environment: TRUE for a
\* variable that is set and not empty, and the recipients of TWILIO_TO_NUMBER.
\* Configurations with every variable set, and with one of them missing.
PhoneConfigs ==
    {c \in [url : BOOLEAN, account_sid : BOOLEAN, auth_token : BOOLEAN,
            from_number : BOOLEAN, to_number : PhoneNumberLists, twiml_url : BOOLEAN] :
        Cardinality({f \in {"url", "account_sid", "auth_token", "from_number", "twiml_url"} :
                        ~c[f]})
          + (IF c.to_number = <<>> THEN 1 ELSE 0) <= 1}

\* if not all([url, twilio_account_sid, twilio_auth_token, twilio_from_number])
\*    or not phone_numbers
phone_config_missing(c) ==
    ~(c.url /\ c.account_sid /\ c.auth_token /\ c.from_number) \/ c.to_number = <<>>

\* raise SystemExit("Missing required env vars. ...")
PhoneConfigError ==
    /\ program = "pollwatch_phone"
    /\ phone.pc = "start"
    /\ phone_config_missing(env)
    /\ phone' = [phone EXCEPT !.pc = "exit"]
    /\ UNCHANGED <<program, listing, calls, chan, api, stopped, owner, probe, phone_file, env, active_monitors, web, web_file, tick, hist>>

\* client = Client(...); state = load_state(); last_id, etag, last_modified
\* from it; stop = False; the signal handlers are set
PhoneStart ==
    /\ program = "pollwatch_phone"
    /\ phone.pc = "start"
    /\ ~phone_config_missing(env)
    /\ phone' = [pc |-> "loop", stop |-> FALSE, last_id |-> phone_file.last_seen_id,
                 etag |-> phone_file.etag, last_modified |-> phone_file.last_modified,
                 state |-> phone_file]
    /\ UNCHANGED <<program, listing, calls, chan, api, stopped, owner, probe, phone_file, env, active_monitors, web, web_file, tick, hist>>

\* A thread of call_number for one recipient.
CallThread(num) == [to |-> num, status |-> "running"]

\* threads = []; for phone_num in phone_numbers: thread = Thread(target=
\* call_number, args=(phone_num,)); thread.start(); threads.append(thread)
start_threads(phone_numbers) ==
    [i \in 1..Len(phone_numbers) |-> CallThread(phone_numbers[i])]

\* elif resp.ok, a page that needs no alert: PhoneFetched as it is
PhoneFetchedQuiet(status, hdr_etag, hdr_last_modified, html) ==
    /\ phone_decide(phone.last_id, phone.state, extract_activity(html)).alert = "none"
    /\ PhoneFetched(status, hdr_etag, hdr_last_modified, html)

\* elif resp.ok, if changed: the tick builds the message and starts a thread
\* for every number; the update of the state waits for the joins.
PhoneFanOut(status, hdr_etag, hdr_last_modified, html) ==
    /\ program = "pollwatch_phone"
    /\ phone.pc = "request"
    /\ status # 304
    /\ resp_ok(status)
    /\ LET etag == refreshed(hdr_etag, phone.etag)
           last_modified == refreshed(hdr_last_modified, phone.last_modified)
           ext == extract_activity(html)
           o == phone_decide(phone.last_id, phone.state, ext)
       IN  /\ o.alert # "none"
           /\ phone' = [phone EXCEPT !.pc = "calling", !.etag = etag,
                                     !.last_modified = last_modified]
           /\ calls' = [pc |-> "joining", threads |-> start_threads(env.to_number),
                        activity_id |-> ext.id, accepting |-> ext.accepting,
                        reason |-> o.alert]
    /\ UNCHANGED <<program, listing, chan, api, stopped, owner, probe, env, active_monitors, web, web_file, tick, hist, phone_file>>

\* call_number(num) in its thread: make_phone_call starts the call, or raises
\* and the thread logs "Failed to call". With TWILIO_TWIML_URL missing the url
\* handed to Twilio is "None?message=...", which Twilio refuses.
call_number(i, initiated) ==
    /\ program = "pollwatch_phone"
    /\ calls.pc \in {"joining", "joined"}
    /\ i \in DOMAIN calls.threads
    /\ calls.threads[i].status = "running"
    /\ initiated => env.twiml_url
    /\ calls' = [calls EXCEPT !.threads[i].status = IF initiated THEN "initiated" ELSE "failed"]
    /\ UNCHANGED <<program, listing, chan, api, stopped, owner, probe, env, active_monitors, web, web_file, tick, hist, phone, phone_file>>

\* PhoneJoined that waits for every thread and gives up when a call failed
PhoneJoined_all_initiated ==
    /\ program = "pollwatch_phone"
    /\ phone.pc = "calling"
    /\ \A i \in DOMAIN calls.threads : calls.threads[i].status = "initiated"
    /\ LET o == changed_update(phone.state, calls.activity_id, calls.accepting, calls.reason)
           saved == with_tokens(o.state, phone.etag, phone.last_modified)
       IN  /\ phone' = [phone EXCEPT !.pc = "sleep", !.last_id = o.last_id, !.state = saved]
           /\ phone_file' = saved
    /\ calls' = [calls EXCEPT !.pc = "joined"]
    /\ UNCHANGED <<program, listing, chan, api, stopped, owner, probe, env, active_monitors, web, web_file, tick, hist>>

\* for thread in threads: thread.join(timeout=2); then the update of
\* last_id and state, and the trailing save. A join returns after two seconds
\* whether or not its thread has ended.
PhoneJoined ==
    /\ program = "pollwatch_phone"
    /\ phone.pc = "calling"
    /\ LET o == changed_update(phone.state, calls.activity_id, calls.accepting, calls.reason)
           saved == with_tokens(o.state, phone.etag, phone.last_modified)
       IN  /\ phone' = [phone EXCEPT !.pc = "sleep", !.last_id = o.last_id, !.state = saved]
           /\ phone_file' = saved
    /\ calls' = [calls EXCEPT !.pc = "joined"]
    /\ UNCHANGED <<program, listing, chan, api, stopped, owner, probe, env, active_monitors, web, web_file, tick, hist>>

(***************************************************************************)
(* pollwatch_telegram.main and pollwatch_sms.main                          *)
(***************************************************************************)
\* The bodies the polled page serves to pollwatch_telegram and pollwatch_sms:
\* the id is carried by a data-activity-id attribute, which both know.
ChanPages ==
    {Page(TRUE, FALSE, "data_activity_id", None)}
    \cup {Page(FALSE, h, "data_activity_id", i) :
              h \in BOOLEAN, i \in ActivityIds \cup {None}}

\* What a tick of the loop did: the id and the invitation to respond the
\* fetched markup carried, the reason of the alert it set out to send, how
\* often it called send_telegram or send_sms, and the exception that ended it.
ChanLog(kind, id, accepting, alert, sends, error) ==
    [kind |-> kind, id |-> id, accepting |-> accepting, alert |-> alert,
     sends |-> sends, error |-> error]

NoChanTick == ChanLog("none", None, FALSE, "none", 0, "none")

\* main up to the loop: state = load_state(); last_id, etag, last_modified
\* from it; stop = False
ChanLoop(file) ==
    [pc |-> "loop", stop |-> FALSE, last_id |-> file.last_seen_id, etag |-> file.etag,
     last_modified |-> file.last_modified, state |-> file, file |-> file,
     log |-> NoChanTick]

\* pollwatch_telegram.main, if changed: the update after send_telegram
telegram_changed_update(state, activity_id, accepting, reason) ==
    LET s1 == [state EXCEPT !.last_seen_id = activity_id]
        s2 == IF activity_id # None /\ accepting
              THEN [s1 EXCEPT !.alerted_accepting_for_id = activity_id]
              ELSE s1
    IN  Outcome(activity_id, s2,
                IF reason = LIVE THEN "WentLive" ELSE "NowAccepting",
                reason)

\* pollwatch_telegram.main, elif not activity_id: the poll is down
telegram_down_update(last_id, state) ==
    IF last_id # None
    THEN Outcome(None, [state EXCEPT !.last_seen_id = None], "WentDown", "none")
    ELSE Outcome(last_id, state, "None", "none")

\* pollwatch_telegram.main, the branch of a fetched page when the message is
\* delivered
telegram_decide(last_id, state, ext) ==
    LET activity_id == ext.id
        accepting == ext.accepting
    IN  IF new_activity(activity_id, last_id)
        THEN telegram_changed_update(state, activity_id, accepting, LIVE)
        ELSE IF now_accepting(activity_id, accepting, state.alerted_accepting_for_id)
        THEN telegram_changed_update(state, activity_id, accepting, ACCEPTING)
        ELSE IF activity_id = None
        THEN telegram_down_update(last_id, state)
        ELSE Outcome(last_id, state, "None", "none")

\* pollwatch_sms.main, if changed: the update after send_sms
sms_changed_update(last_id, state, activity_id, accepting, reason) ==
    LET last == IF activity_id # None THEN activity_id ELSE last_id
        s1 == [state EXCEPT !.last_seen_id = last]
        s2 == IF activity_id # None /\ accepting
              THEN [s1 EXCEPT !.alerted_accepting_for_id = activity_id]
              ELSE s1
    IN  Outcome(last, s2, IF reason = LIVE THEN "WentLive" ELSE "NowAccepting", reason)

\* pollwatch_sms.main, the branch of a fetched page when the message is
\* delivered
sms_decide(last_id, state, ext) ==
    LET activity_id == ext.id
        accepting == ext.accepting
    IN  IF new_activity(activity_id, last_id)
        THEN sms_changed_update(last_id, state, activity_id, accepting, LIVE)
        ELSE IF now_accepting(activity_id, accepting, state.alerted_accepting_for_id)
        THEN sms_changed_update(last_id, state, activity_id, accepting, ACCEPTING)
        ELSE Outcome(last_id, state, "None", "none")

\* while not stop: (the loop goes round) build the headers and send the request
ChanRequest ==
    /\ program \in {"pollwatch_telegram", "pollwatch_sms"}
    /\ chan.pc = "loop"
    /\ ~chan.stop
    /\ chan' = [chan EXCEPT !.pc = "request", !.log = NoChanTick]
    /\ UNCHANGED <<program, listing, calls, api, stopped, owner, probe, phone, phone_file, env, active_monitors, web, web_file, tick, hist>>

\* while not stop: (stop is set) main returns
ChanExit ==
    /\ program \in {"pollwatch_telegram", "pollwatch_sms"}
    /\ chan.pc = "loop"
    /\ chan.stop
    /\ chan' = [chan EXCEPT !.pc = "done"]
    /\ UNCHANGED <<program, listing, calls, api, stopped, owner, probe, phone, phone_file, env, active_monitors, web, web_file, tick, hist>>

\* sess.get raises: except Exception logs it
ChanFetchFails ==
    /\ program \in {"pollwatch_telegram", "pollwatch_sms"}
    /\ chan.pc = "request"
    /\ chan' = [chan EXCEPT !.pc = "sleep",
                            !.log = ChanLog("exception", None, FALSE, "none", 0, "RequestException")]
    /\ UNCHANGED <<program, listing, calls, api, stopped, owner, probe, phone, phone_file, env, active_monitors, web, web_file, tick, hist>>

\* if resp.status_code == 304: then the trailing save
ChanNotModified ==
    /\ program \in {"pollwatch_telegram", "pollwatch_sms"}
    /\ chan.pc = "request"
    /\ LET saved == with_tokens(chan.state, chan.etag, chan.last_modified)
       IN  chan' = [chan EXCEPT !.pc = "sleep", !.state = saved, !.file = saved,
                                !.log = ChanLog("not_modified", None, FALSE, "none", 0, "none")]
    /\ UNCHANGED <<program, listing, calls, api, stopped, owner, probe, phone, phone_file, env, active_monitors, web, web_file, tick, hist>>

\* pollwatch_telegram.main, elif resp.ok: refresh the tokens, extract, decide,
\* send_telegram, update, save. send_telegram raises RuntimeError when the
\* Bot API answers with an error (or requests.post raises): the update and
\* the save are skipped and except Exception logs it.
TelegramFetched(status, hdr_etag, hdr_last_modified, html, delivered) ==
    /\ program = "pollwatch_telegram"
    /\ chan.pc = "request"
    /\ status # 304
    /\ resp_ok(status)
    /\ LET etag == refreshed(hdr_etag, chan.etag)
           last_modified == refreshed(hdr_last_modified, chan.last_modified)
           ext == telegram_extract_activity(html)
           o == telegram_decide(chan.last_id, chan.state, ext)
           saved == with_tokens(o.state, etag, last_modified)
       IN  IF o.alert # "none" /\ ~delivered
           THEN chan' = [chan EXCEPT !.pc = "sleep", !.etag = etag,
                                     !.last_modified = last_modified,
                                     !.log = ChanLog("exception", ext.id, ext.accepting,
                                                     o.alert, 1, "RuntimeError")]
           ELSE chan' = [chan EXCEPT !.pc = "sleep", !.etag = etag,
                                     !.last_modified = last_modified,
                                     !.last_id = o.last_id, !.state = saved, !.file = saved,
                                     !.log = ChanLog("fetched", ext.id, ext.accepting, o.alert,
                                                     IF o.alert = "none" THEN 0 ELSE 1, "none")]
    /\ UNCHANGED <<program, listing, calls, api, stopped, owner, probe, phone, phone_file, env, active_monitors, web, web_file, tick, hist>>

\* pollwatch_sms.main, elif resp.ok: refresh the tokens, extract, decide,
\* send_sms, update, save. An exception of extract_activity or of send_sms
\* skips what follows it and except Exception logs it.
SmsFetched(status, hdr_etag, hdr_last_modified, html, delivered) ==
    /\ program = "pollwatch_sms"
    /\ chan.pc = "request"
    /\ status # 304
    /\ resp_ok(status)
    /\ LET etag == refreshed(hdr_etag, chan.etag)
           last_modified == refreshed(hdr_last_modified, chan.last_modified)
           ext == sms_extract_activity(html)
           carried == FirstMatch(SMS_ID_PATTERNS, html)
       IN  IF "raised" \in DOMAIN ext
           THEN chan' = [chan EXCEPT !.pc = "sleep", !.etag = etag,
                                     !.last_modified = last_modified,
                                     !.log = ChanLog("exception", carried, AcceptingHint(html),
                                                     "none", 0, ext.raised)]
           ELSE LET o == sms_decide(chan.last_id, chan.state, ext)
                    saved == with_tokens(o.state, etag, last_modified)
                IN  IF o.alert # "none" /\ ~delivered
                    THEN chan' = [chan EXCEPT !.pc = "sleep", !.etag = etag,
                                              !.last_modified = last_modified,
                                              !.log = ChanLog("exception", carried,
                                                              AcceptingHint(html), o.alert, 1,
                                                              "RuntimeError")]
                    ELSE chan' = [chan EXCEPT !.pc = "sleep", !.etag = etag,
                                              !.last_modified = last_modified,
                                              !.last_id = o.last_id, !.state = saved,
                                              !.file = saved,
                                              !.log = ChanLog("fetched", carried,
                                                              AcceptingHint(html), o.alert,
                                                              IF o.alert = "none" THEN 0 ELSE 1,
                                                              "none")]
    /\ UNCHANGED <<program, listing, calls, api, stopped, owner, probe, phone, phone_file, env, active_monitors, web, web_file, tick, hist>>

\* else: logging.warning("HTTP %s from %s"), then the trailing save
ChanHttpError(status) ==
    /\ program \in {"pollwatch_telegram", "pollwatch_sms"}
    /\ chan.pc = "request"
    /\ status # 304
    /\ ~resp_ok(status)
    /\ LET saved == with_tokens(chan.state, chan.etag, chan.last_modified)
       IN  chan' = [chan EXCEPT !.pc = "sleep", !.state = saved, !.file = saved,
                                !.log = ChanLog("http_error", None, FALSE, "none", 0, "none")]
    /\ UNCHANGED <<program, listing, calls, api, stopped, owner, probe, phone, phone_file, env, active_monitors, web, web_file, tick, hist>>

\* time.sleep(interval)
ChanSleep ==
    /\ program \in {"pollwatch_telegram", "pollwatch_sms"}
    /\ chan.pc = "sleep"
    /\ chan' = [chan EXCEPT !.pc = "loop"]
    /\ UNCHANGED <<program, listing, calls, api, stopped, owner, probe, phone, phone_file, env, active_monitors, web, web_file, tick, hist>>

\* handle_sig of pollwatch_telegram and pollwatch_sms
chan_handle_sig ==
    /\ program \in {"pollwatch_telegram", "pollwatch_sms"}
    /\ chan.pc # "done"
    /\ ~chan.stop
    /\ chan' = [chan EXCEPT !.stop = TRUE]
    /\ UNCHANGED <<program, listing, calls, api, stopped, owner, probe, phone, phone_file, env, active_monitors, web, web_file, tick, hist>>

(***************************************************************************)
(* Specification                                                           *)
(***************************************************************************)
\* pollwatch_phone: main has loaded the state and is about to enter the loop.
\* web_app: start_monitor has registered m1 and started its thread.
Init ==
    /\ program \in {"pollwatch_phone", "web_app"}
    /\ phone_file = EmptyState
    /\ phone = [pc |-> "loop", stop |-> FALSE, last_id |-> phone_file.last_seen_id,
                etag |-> phone_file.etag, last_modified |-> phone_file.last_modified,
                state |-> phone_file]
    /\ env \in [twilio : IF program = "web_app" THEN BOOLEAN ELSE {TRUE}]
    /\ active_monitors = [m \in MonitorIds |-> Registered("starting", None)]
    /\ web_file = EmptyDict
    /\ web = [t \in Threads |->
                [mid |-> "m1", pc |-> "spawned", last_id |-> None, etag |-> None,
                 last_modified |-> None, state |-> web_file]]
    /\ tick = NoTick
    /\ hist = <<>>
    /\ api = Reply("start", "m1", TRUE, "none")
    /\ stopped = {}
    /\ owner = [m \in MonitorIds |-> "t1"]
    /\ probe = NoProbe
    /\ calls = NoCalls
    /\ chan = NoChannel
    /\ listing = NoListing

Headers == (ETags \cup {None}) \X (LastModifieds \cup {None})

PhoneNext ==
    \/ PhoneRequest
    \/ PhoneExit
    \/ PhoneFetchFails
    \/ PhoneNotModified
    \/ \E status \in Statuses, h \in Headers, html \in PageBodies :
          PhoneFetched(status, h[1], h[2], html)
    \/ \E status \in Statuses : PhoneHttpError(status)
    \/ PhoneSleep
    \/ handle_sig

WebNext ==
    \/ \E t \in Threads : WebConfigError(t)
    \/ \E t \in Threads : WebStart(t)
    \/ \E t \in Threads : WebStartUnregistered(t)
    \/ \E t \in Threads : WebRequest(t)
    \/ \E t \in Threads : WebExit(t)
    \/ \E t \in Threads : WebFetchFails(t)
    \/ \E t \in Threads : WebNotModified(t)
    \/ \E t \in Threads, status \in Statuses, h \in Headers, html \in PageBodies :
          WebFetched(t, status, h[1], h[2], html)
    \/ \E t \in Threads, status \in Statuses : WebHttpError(t, status)
    \/ \E t \in Threads : WebSleep(t)
    \/ \E m \in MonitorIds : stop_monitor(m)

Next == PhoneNext \/ WebNext

Spec == Init /\ [][Next]_vars

(***************************************************************************)
(* The monitor API with its threads                                        *)
(***************************************************************************)
\* What the polled page serves while the API is exercised: one accepting poll,
\* sent without validators.
MgrPages == {Page(FALSE, TRUE, "response_root_question", "41")}
MgrStatuses == {200, 404}

\* web_app has started: no monitor is registered and no thread exists.
MgrInit ==
    /\ program = "web_app"
    /\ phone_file = EmptyState
    /\ phone = [pc |-> "loop", stop |-> FALSE, last_id |-> None, etag |-> None,
                last_modified |-> None, state |-> phone_file]
    /\ env \in [twilio : BOOLEAN]
    /\ active_monitors = NoMonitors
    /\ web_file = EmptyDict
    /\ web = [t \in MgrThreads |-> IdleThread]
    /\ tick = Unobserved
    /\ hist = <<>>
    /\ api = NoCall
    /\ stopped = {}
    /\ owner = [m \in MgrMonitorIds |-> None]
    /\ probe = NoProbe
    /\ calls = NoCalls
    /\ chan = NoChannel
    /\ listing = NoListing

MgrNext ==
    \/ \E e \in {REQUIRED, INVALID_URL} : start_monitor_rejected(e)
    \/ \E m \in MgrMonitorIds : start_monitor_exists(m)
    \/ \E m \in MgrMonitorIds : start_monitor(m)
    \/ \E m \in MgrMonitorIds : stop_monitor_not_found(m)
    \/ \E m \in MgrMonitorIds : stop_monitor(m)
    \/ \E t \in MgrThreads : WebConfigError(t)
    \/ \E t \in MgrThreads : WebStart(t)
    \/ \E t \in MgrThreads : WebStartUnregistered(t)
    \/ \E t \in MgrThreads : WebRequest(t)
    \/ \E t \in MgrThreads : WebExit(t)
    \/ \E t \in MgrThreads : WebFetchFails(t)
    \/ \E t \in MgrThreads : WebNotModified(t)
    \/ \E t \in MgrThreads, status \in MgrStatuses, html \in MgrPages :
          WebFetched(t, status, None, None, html)
    \/ \E t \in MgrThreads, status \in MgrStatuses : WebHttpError(t, status)
    \/ \E t \in MgrThreads : WebSleep(t)

MgrSpec == MgrInit /\ [][MgrNext]_vars

(***************************************************************************)
(* extract_activity on its own                                             *)
(***************************************************************************)
\* result = extract_activity(html) of pollwatch_phone
ExtractPhone ==
    /\ probe.pc = "drawn"
    /\ probe' = [probe EXCEPT !.pc = "pollwatch_phone",
                              !.result = extract_activity(probe.html)]
    /\ UNCHANGED <<program, listing, calls, chan, api, stopped, owner, phone, phone_file, env,
                   active_monitors, web, web_file, tick, hist>>

\* result = extract_activity(html) of web_app
ExtractWeb ==
    /\ probe.pc = "drawn"
    /\ probe' = [probe EXCEPT !.pc = "web_app",
                              !.result = web_extract_activity(probe.html)]
    /\ UNCHANGED <<program, listing, calls, chan, api, stopped, owner, phone, phone_file, env,
                   active_monitors, web, web_file, tick, hist>>

\* result = extract_activity(html) of pollwatch_telegram
ExtractTelegram ==
    /\ probe.pc = "drawn"
    /\ probe' = [probe EXCEPT !.pc = "pollwatch_telegram",
                              !.result = telegram_extract_activity(probe.html)]
    /\ UNCHANGED <<program, listing, calls, chan, api, stopped, owner, phone, phone_file, env,
                   active_monitors, web, web_file, tick, hist>>

\* result = extract_activity(html) of pollwatch_sms
ExtractSms ==
    /\ probe.pc = "drawn"
    /\ probe' = [probe EXCEPT !.pc = "pollwatch_sms",
                              !.result = sms_extract_activity(probe.html)]
    /\ UNCHANGED <<program, listing, calls, chan, api, stopped, owner, phone, phone_file, env,
                   active_monitors, web, web_file, tick, hist>>

\* A markup has been fetched and is about to be handed to extract_activity.
ExtractInit ==
    /\ program = "extract_activity"
    /\ phone_file = EmptyState
    /\ phone = [pc |-> "done", stop |-> FALSE, last_id |-> None, etag |-> None,
                last_modified |-> None, state |-> phone_file]
    /\ env = [twilio |-> TRUE]
    /\ active_monitors = NoMonitors
    /\ web_file = EmptyDict
    /\ web = [t \in Threads |-> IdleThread]
    /\ tick = NoTick
    /\ hist = <<>>
    /\ api = NoCall
    /\ stopped = {}
    /\ owner = [m \in MonitorIds |-> None]
    /\ probe \in [pc : {"drawn"}, html : Markups, result : {Extraction(None, FALSE, None)}]
    /\ calls = NoCalls
    /\ chan = NoChannel
    /\ listing = NoListing

ExtractNext == ExtractPhone \/ ExtractWeb \/ ExtractTelegram \/ ExtractSms

ExtractSpec == ExtractInit /\ [][ExtractNext]_vars

(***************************************************************************)
(* pollwatch_phone and pollwatch_telegram side by side                     *)
(***************************************************************************)
\* Both programs have loaded an empty state and are in their loops.
BothInit ==
    /\ program = "pollwatch_phone, pollwatch_telegram"
    /\ phone_file = EmptyState
    /\ phone = [pc |-> "loop", stop |-> FALSE, last_id |-> None, etag |-> None,
                last_modified |-> None, state |-> EmptyState]
    /\ chan = ChanLoop(EmptyState)
    /\ listing = NoListing
    /\ tick = NoTick
    /\ env = [twilio |-> TRUE]
    /\ active_monitors = NoMonitors
    /\ web_file = EmptyDict
    /\ web = [t \in Threads |-> IdleThread]
    /\ hist = <<>>
    /\ api = NoCall
    /\ stopped = {}
    /\ owner = [m \in MonitorIds |-> None]
    /\ probe = NoProbe
    /\ calls = NoCalls

\* One tick of each program on a fresh page from which both extracted the
\* same id and accepting flag; every call and every message is delivered.
BothFetched(hdr_etag, hdr_last_modified, activity_id, accepting) ==
    /\ program = "pollwatch_phone, pollwatch_telegram"
    /\ LET ext == Extraction(activity_id, accepting, None)
           o == phone_decide(phone.last_id, phone.state, ext)
           t == telegram_decide(chan.last_id, chan.state, ext)
           etag == refreshed(hdr_etag, phone.etag)
           last_modified == refreshed(hdr_last_modified, phone.last_modified)
           saved == with_tokens(o.state, etag, last_modified)
           tsaved == with_tokens(t.state, refreshed(hdr_etag, chan.etag),
                                 refreshed(hdr_last_modified, chan.last_modified))
       IN  /\ phone' = [phone EXCEPT !.last_id = o.last_id, !.state = saved,
                                     !.etag = etag, !.last_modified = last_modified]
           /\ phone_file' = saved
           /\ tick' = TickLog("fetched", 200, TRUE, o.trans, o.alert)
           /\ chan' = [chan EXCEPT !.last_id = t.last_id, !.state = tsaved,
                                   !.file = tsaved, !.etag = tsaved.etag,
                                   !.last_modified = tsaved.last_modified,
                                   !.log = ChanLog("fetched", activity_id, accepting, t.alert,
                                                   IF t.alert = "none" THEN 0 ELSE 1, "none")]
    /\ UNCHANGED <<program, listing, calls, api, stopped, owner, probe, env, active_monitors, web, web_file, hist>>

BothNext == \E h \in Headers, activity_id \in ActivityIds \cup {None}, accepting \in BOOLEAN :
                BothFetched(h[1], h[2], activity_id, accepting)

BothSpec == BothInit /\ [][BothNext]_vars

(***************************************************************************)
(* The monitor API with list requests                                      *)
(***************************************************************************)
ListNext ==
    \/ MgrNext
    \/ list_monitors_empty
    \/ \E m \in MgrMonitorIds : list_monitors(m)
    \/ \E m \in MgrMonitorIds : list_monitors_append(m)
    \/ list_monitors_raises
    \/ list_monitors_returns

ListSpec == MgrInit /\ [][ListNext]_vars

(***************************************************************************)
(* A watch that is stopped and started again                               *)
(***************************************************************************)
\* The validators the responses carry in the specifications with few inputs: both or none.
CallHeaders == {<<"e1", "d1">>, <<None, None>>}

RestartNext ==
    \/ PhoneRequest
    \/ PhoneExit
    \/ PhoneFetchFails
    \/ PhoneNotModified
    \/ \E status \in MgrStatuses, h \in CallHeaders, html \in PageBodies :
          PhoneFetched(status, h[1], h[2], html)
    \/ \E status \in MgrStatuses : PhoneHttpError(status)
    \/ PhoneSleep
    \/ handle_sig
    \/ PhoneRestart
    \/ \E t \in Threads : WebConfigError(t)
    \/ \E t \in Threads : WebStart(t)
    \/ \E t \in Threads : WebStartUnregistered(t)
    \/ \E t \in Threads : WebRequest(t)
    \/ \E t \in Threads : WebExit(t)
    \/ \E t \in Threads : WebFetchFails(t)
    \/ \E t \in Threads : WebNotModified(t)
    \/ \E t \in Threads, status \in MgrStatuses, h \in CallHeaders, html \in PageBodies :
          WebFetched(t, status, h[1], h[2], html)
    \/ \E t \in Threads, status \in MgrStatuses : WebHttpError(t, status)
    \/ \E t \in Threads : WebSleep(t)
    \/ \E m \in MonitorIds : stop_monitor(m)
    \/ \E t \in Threads : WebRestart(t)
    \/ OtherMonitorSaves

RestartSpec == Init /\ [][RestartNext]_vars

(***************************************************************************)
(* pollwatch_phone from its first line, with the calls of a tick apart     *)
(***************************************************************************)
\* main has read its environment.
PhoneStartInit ==
    /\ program = "pollwatch_phone"
    /\ env \in PhoneConfigs
    /\ phone_file = EmptyState
    /\ phone = [pc |-> "start", stop |-> FALSE, last_id |-> None, etag |-> None,
                last_modified |-> None, state |-> EmptyState]
    /\ calls = NoCalls
    /\ active_monitors = NoMonitors
    /\ web_file = EmptyDict
    /\ web = [t \in Threads |-> IdleThread]
    /\ tick = Unobserved
    /\ hist = <<>>
    /\ api = NoCall
    /\ stopped = {}
    /\ owner = [m \in MonitorIds |-> None]
    /\ probe = NoProbe
    /\ chan = NoChannel
    /\ listing = NoListing

PhoneStartNext ==
    \/ PhoneConfigError
    \/ PhoneStart
    \/ PhoneRequest
    \/ PhoneExit
    \/ PhoneFetchFails
    \/ PhoneNotModified
    \/ \E status \in MgrStatuses, h \in CallHeaders, html \in PageBodies :
          PhoneFetchedQuiet(status, h[1], h[2], html)
    \/ \E status \in MgrStatuses, h \in CallHeaders, html \in PageBodies :
          PhoneFanOut(status, h[1], h[2], html)
    \/ \E i \in 1..Len(RecipientPool), initiated \in BOOLEAN : call_number(i, initiated)
    \/ PhoneJoined
    \/ \E status \in MgrStatuses : PhoneHttpError(status)
    \/ PhoneSleep
    \/ handle_sig

PhoneStartSpec == PhoneStartInit /\ [][PhoneStartNext]_vars

(***************************************************************************)
(* The loops of pollwatch_telegram and pollwatch_sms                       *)
(***************************************************************************)
\* main has checked its configuration, loaded the state and is about to enter
\* the loop.
ChanInit ==
    /\ program \in {"pollwatch_telegram", "pollwatch_sms"}
    /\ chan = ChanLoop(EmptyState)
    /\ listing = NoListing
    /\ phone_file = EmptyState
    /\ phone = [pc |-> "done", stop |-> FALSE, last_id |-> None, etag |-> None,
                last_modified |-> None, state |-> EmptyState]
    /\ env = [twilio |-> TRUE]
    /\ active_monitors = NoMonitors
    /\ web_file = EmptyDict
    /\ web = [t \in Threads |-> IdleThread]
    /\ tick = Unobserved
    /\ hist = <<>>
    /\ api = NoCall
    /\ stopped = {}
    /\ owner = [m \in MonitorIds |-> None]
    /\ probe = NoProbe
    /\ calls = NoCalls

ChanNext ==
    \/ ChanRequest
    \/ ChanExit
    \/ ChanFetchFails
    \/ ChanNotModified
    \/ \E status \in Statuses, h \in Headers, html \in ChanPages, delivered \in BOOLEAN :
          TelegramFetched(status, h[1], h[2], html, delivered)
    \/ \E status \in Statuses, h \in Headers, html \in ChanPages, delivered \in BOOLEAN :
          SmsFetched(status, h[1], h[2], html, delivered)
    \/ \E status \in Statuses : ChanHttpError(status)
    \/ ChanSleep
    \/ chan_handle_sig

ChanSpec == ChanInit /\ [][ChanNext]_vars

(***************************************************************************)
(* The running watch, seen the same way for both entry points               *)
(***************************************************************************)
Lookup(d, key) == IF key \in DOMAIN d THEN d[key] ELSE EmptyState

\* pc and locals of the loop, its record in memory and its record on disk
Watch ==
    IF program = "pollwatch_phone"
    THEN [pc |-> phone.pc, last_id |-> phone.last_id, etag |-> phone.etag,
          last_modified |-> phone.last_modified, state |-> phone.state,
          file |-> phone_file]
    ELSE [pc |-> web["t1"].pc, last_id |-> web["t1"].last_id, etag |-> web["t1"].etag,
          last_modified |-> web["t1"].last_modified,
          state |-> Lookup(web["t1"].state, web["t1"].mid),
          file |-> Lookup(web_file, web["t1"].mid)]

\* Everything of the watch that a tick can change, the pc aside.
WatchData == [Watch EXCEPT !.pc = "-"]

\* A tick has just ended and its log is in tick.
TickEnded == Watch.pc = "sleep"
Fetched == TickEnded /\ tick.kind = "fetched"

\* The step from s to s' is a whole tick.
TickStep == tick.kind = "pending" /\ tick'.kind # "pending"

\* The ticks that ran extraction, latest first.
Latest == hist[Len(hist)]
Previous == hist[Len(hist) - 1]
BeforePrevious == hist[Len(hist) - 2]

(***************************************************************************)
(* Went live                                                               *)
(***************************************************************************)
\* C1: a fetched tick whose extracted id is present and differs from last_id
\* sends the "went live" alert, records the id as last seen and, if the page
\* is accepting, latches alerted_accepting_for_id to it in the same tick; the
\* next fetched tick with the same id, still accepting, sends nothing.
C1_WentLiveFoldsAccepting ==
    /\ (Fetched /\ Latest.id # None /\ Latest.id # tick.pre_last) =>
          /\ tick.trans = "WentLive"
          /\ tick.alert = LIVE
          /\ Watch.last_id = Latest.id
          /\ Watch.state.last_seen_id = Latest.id
          /\ Watch.file.last_seen_id = Latest.id
          /\ Latest.accepting =>
                /\ Watch.state.alerted_accepting_for_id = Latest.id
                /\ Watch.file.alerted_accepting_for_id = Latest.id
    /\ (/\ Len(hist) >= 2
        /\ Previous.alert = LIVE /\ Previous.accepting
        /\ Latest.id = Previous.id /\ Latest.accepting) => Latest.alert = "none"

\* A poll went live while accepting, and the next fetched tick saw it again.
C1_Witness ==
    /\ Fetched
    /\ Len(hist) >= 2
    /\ Previous.alert = LIVE /\ Previous.accepting
    /\ Latest.id = Previous.id /\ Latest.accepting
    /\ Watch.state.alerted_accepting_for_id = Latest.id

\* C2: of consecutive fetched ticks that see the same activity id with the
\* same accepting flag, only the first can alert: no second "went live" for
\* the id, and no "now accepting" once the alerted flag holds the id.
C2_NoAlertOnRepeat ==
    /\ (/\ Len(hist) >= 2
        /\ Latest.id # None
        /\ Latest.id = Previous.id
        /\ Latest.accepting = Previous.accepting) => Latest.alert = "none"
    /\ (/\ Len(hist) >= 3
        /\ Previous.id # None
        /\ Previous.id = BeforePrevious.id
        /\ Previous.accepting = BeforePrevious.accepting) => Previous.alert = "none"
    /\ (/\ Fetched
        /\ Latest.id # None
        /\ tick.pre_last = Latest.id
        /\ tick.pre_alerted = Latest.id) => tick.alert = "none"

\* The same accepting poll was seen three times running; the first tick alerted.
C2_Witness ==
    /\ Len(hist) >= 3
    /\ BeforePrevious.id # None /\ BeforePrevious.accepting
    /\ BeforePrevious.alert # "none"
    /\ Previous.id = BeforePrevious.id /\ Previous.accepting
    /\ Latest.id = BeforePrevious.id /\ Latest.accepting

(***************************************************************************)
(* Re-arm                                                                  *)
(***************************************************************************)
\* The last three fetched ticks saw the same poll accepting, locked, accepting,
\* and the first of them sent the "now accepting" alert.
ReopenedAfterLock ==
    /\ Len(hist) >= 3
    /\ BeforePrevious.id # None /\ BeforePrevious.accepting
    /\ BeforePrevious.alert = ACCEPTING
    /\ Previous.id = BeforePrevious.id /\ ~Previous.accepting
    /\ Latest.id = BeforePrevious.id /\ Latest.accepting

\* C3: in pollwatch_phone, with last_id = A and the alerted flag not A, the
\* fetched ticks (A, accepting), (A, locked), (A, accepting) send exactly two
\* "now accepting" alerts: the first and the third tick alert, the middle tick
\* sends nothing and clears alerted_accepting_for_id.
C3_PhoneRearm ==
    program = "pollwatch_phone" =>
       \* first tick: last_id = A, flag not A, A accepting
       /\ (/\ Fetched /\ Latest.id # None /\ Latest.accepting
           /\ tick.pre_last = Latest.id /\ tick.pre_alerted # Latest.id) =>
              /\ tick.alert = ACCEPTING
              /\ Watch.state.alerted_accepting_for_id = Latest.id
       \* middle tick: the same poll, locked
       /\ (/\ Fetched /\ Len(hist) >= 2
           /\ Previous.id # None /\ Previous.accepting
           /\ Latest.id = Previous.id /\ ~Latest.accepting) =>
              /\ tick.alert = "none"
              /\ Watch.last_id = Latest.id
              /\ Watch.state.alerted_accepting_for_id = None
              /\ Watch.file.alerted_accepting_for_id = None
       \* the whole sequence: two alerts
       /\ ReopenedAfterLock => Previous.alert = "none" /\ Latest.alert = ACCEPTING

\* pollwatch_phone went through accepting, locked, accepting for one poll.
C3_Witness ==
    program = "pollwatch_phone" /\ Fetched /\ ReopenedAfterLock /\ Latest.alert = ACCEPTING

\* C4: in web_app.monitor_poll, the same sequence (A, accepting), (A, locked),
\* (A, accepting) makes two "now accepting" calls, one per acceptance window.
C4_WebRearm ==
    (program = "web_app" /\ ReopenedAfterLock) => Latest.alert = ACCEPTING

(***************************************************************************)
(* Down and up                                                             *)
(***************************************************************************)
\* The last three fetched ticks saw poll A, then no poll, then poll A again.
DownAndUp ==
    /\ Len(hist) >= 3
    /\ BeforePrevious.id # None
    /\ Previous.id = None
    /\ Latest.id = BeforePrevious.id

\* C5: for the fetched ticks live(A), down, live(A): the down tick is the
\* WentDown transition and clears last_id and alerted_accepting_for_id; the
\* first tick alerts "went live" (A was not last_id) and so does the third,
\* though the id is the one seen before.
C5_DownUp ==
    /\ (Fetched /\ Latest.id = None /\ tick.pre_last # None) =>
          /\ tick.trans = "WentDown"
          /\ Watch.last_id = None
          /\ Watch.state.last_seen_id = None
          /\ Watch.state.alerted_accepting_for_id = None
          /\ Watch.file.last_seen_id = None
          /\ Watch.file.alerted_accepting_for_id = None
    /\ (Fetched /\ Latest.id # None /\ tick.pre_last # Latest.id) => tick.alert = LIVE
    /\ DownAndUp => Latest.alert = LIVE

\* Poll A went live, went down and came back; both appearances alerted.
C5_Witness ==
    Fetched /\ DownAndUp /\ BeforePrevious.alert = LIVE /\ Latest.alert = LIVE

(***************************************************************************)
(* Alerts and transitions                                                  *)
(***************************************************************************)
\* C6 as stated: a fetched tick alerts if and only if its transition is one
\* of WentLive, NowAccepting and WentDown.
C6_AlertIffTransition ==
    Fetched => (tick.alert # "none" <=> tick.trans # "None")

\* C6: a fetched tick alerts, once, if and only if its transition is WentLive
\* or NowAccepting, with the reason of that transition; a WentDown tick
\* clears the state and sends no alert; no other tick alerts.
C6_AlertIffLiveOrAccepting ==
    /\ Fetched =>
          /\ tick.alert # "none" <=> tick.trans \in {"WentLive", "NowAccepting"}
          /\ tick.trans = "WentLive" => tick.alert = LIVE
          /\ tick.trans = "NowAccepting" => tick.alert = ACCEPTING
          /\ tick.trans = "WentDown" => tick.alert = "none"
    /\ (TickEnded /\ tick.kind # "fetched") => tick.alert = "none"

\* A poll that was live went down: the transition is taken without an alert.
C6_Witness ==
    Fetched /\ tick.trans = "WentDown" /\ tick.alert = "none" /\ tick.pre_last # None

(***************************************************************************)
(* Conditional fetch, caching tokens, failed fetches                       *)
(***************************************************************************)
Is2xx(status) == status \in 200..299

\* The tick of this step changed nothing the watch holds or has persisted,
\* ran no extraction, took no transition and sent no alert.
NoOpTick ==
    /\ WatchData' = WatchData
    /\ hist' = hist
    /\ ~tick'.extracted
    /\ tick'.trans = "None"
    /\ tick'.alert = "none"
    /\ Watch'.pc = "sleep"

\* C7: a tick that receives 304 runs neither extraction nor the transition
\* logic, sends no alert, and leaves last_id, alerted_accepting_for_id, etag,
\* last_modified and the persisted record as they were before the tick.
C7_NotModifiedIsNoOp ==
    [][(TickStep /\ tick'.kind = "not_modified") => NoOpTick]_vars

\* A watch that holds a last seen id, an alerted flag and an etag got a 304.
C7_Witness ==
    /\ TickEnded /\ tick.kind = "not_modified"
    /\ Watch.last_id # None
    /\ Watch.state.alerted_accepting_for_id # None
    /\ Watch.etag # None
    /\ Watch.file = Watch.state

\* C8: after every tick that receives a 2xx response, etag and last_modified,
\* as held and as persisted, are the validators that response carried, so the
\* next request sends no validator of an older response.
C8_TokensAreThoseOfTheResponse ==
    (Fetched /\ Is2xx(tick.status)) =>
        /\ Watch.etag = tick.hdr_etag
        /\ Watch.last_modified = tick.hdr_last_modified
        /\ Watch.file.etag = tick.hdr_etag
        /\ Watch.file.last_modified = tick.hdr_last_modified

\* C9: a tick that receives a response that is neither 2xx nor 304 is a no-op:
\* nothing extracted is applied, no alert is sent, last_id, the alerted flag
\* and the tokens are unchanged, and the loop goes on to its sleep.
C9_OtherStatusIsNoOp ==
    [][(/\ TickStep
        /\ tick'.kind # "exception"
        /\ ~Is2xx(tick'.status)
        /\ tick'.status # 304) => NoOpTick]_vars

\* The loop has been asked to stop: the stop flag of pollwatch_phone, the
\* registry entry of the monitor gone or not "running" in web_app.
StopRequested ==
    IF program = "pollwatch_phone"
    THEN phone.stop
    ELSE ~still_running(active_monitors, web["t1"].mid)

\* C10: a fetch that fails at the network level never ends the watch loop: the
\* tick changes nothing and sends nothing, the loop sleeps and comes back to
\* its head, where it leaves only if it was asked to stop and otherwise sends
\* the next request; so it is after any number of failures.
C10_FetchFailureIsContained ==
    [][/\ (TickStep /\ tick'.kind = "exception") => NoOpTick
       /\ (Watch.pc = "sleep" /\ Watch'.pc # "sleep") => Watch'.pc = "loop"
       /\ (Watch.pc = "loop" /\ Watch'.pc = "done") => StopRequested
       /\ (Watch.pc = "loop" /\ ~StopRequested) =>
             ENABLED (PhoneRequest \/ \E t \in Threads : WebRequest(t))]_vars

\* A watch with a poll on record had a fetch fail and is asleep until the
\* next tick.
C10_Witness ==
    /\ TickEnded /\ tick.kind = "exception"
    /\ Watch.last_id # None
    /\ Watch.file.last_seen_id = Watch.last_id
    /\ ~StopRequested

(***************************************************************************)
(* The monitor API: start and stop                                         *)
(***************************************************************************)
\* The step is a request to the API of this kind for this monitor.
ApiStep(call, m) == api' # api /\ api'.call = call /\ api'.monitor_id = m

\* The step creates a thread for this monitor.
Spawns(m) ==
    \E t \in DOMAIN web : web[t].pc = "idle" /\ web'[t].pc = "spawned" /\ web'[t].mid = m

\* C11: while a monitor is registered with status "running", a start request
\* for it is answered with the "already exists" error, the registry and the
\* threads are left as they are, and no step creates a thread for the monitor
\* or resets its entry to "starting".
C11_StartWhileRunningIsRejected ==
    [][\A m \in MgrMonitorIds :
          still_running(active_monitors, m) =>
             /\ ~Spawns(m)
             /\ still_running(active_monitors', m) \/ m \notin DOMAIN active_monitors'
             /\ ApiStep("start", m) =>
                   /\ ~api'.success
                   /\ api'.error = ALREADY_EXISTS
                   /\ active_monitors' = active_monitors
                   /\ web' = web]_vars

\* A start request for a running monitor was refused; its one thread goes on.
C11_Witness ==
    /\ api = Reply("start", "m1", FALSE, ALREADY_EXISTS)
    /\ still_running(active_monitors, "m1")
    /\ Cardinality(Serving("m1")) = 1

\* C12: no two threads have a tick in progress for the same monitor.
C12_OneLoopPerWatch ==
    \A t, u \in DOMAIN web :
        (/\ web[t].pc = "request" /\ web[u].pc = "request"
         /\ web[t].mid = web[u].mid) => t = u

\* C13: a thread whose monitor a stop request has deleted begins no further
\* tick: from the head of its loop it does not go on to a request.
C13_StoppedLoopBeginsNoTick ==
    [][\A t \in DOMAIN web :
          (t \in stopped /\ web[t].pc = "loop") => web'[t].pc # "request"]_vars

\* C14: with the Twilio settings complete, a monitor whose latest start was
\* accepted and has not been stopped since is in the registry.
C14_StartedStaysRegistered ==
    \A m \in DOMAIN owner :
        (env.twilio /\ owner[m] # None) => m \in DOMAIN active_monitors

C16_SaveKeepsOtherRecords ==
    [][\A t \in DOMAIN web :
          (web[t].pc = "request" /\ web'[t].pc = "sleep" /\ web_file' # web_file) =>
             \A k \in DOMAIN web_file \ {web[t].mid} :
                k \in DOMAIN web_file' /\ web_file'[k] = web_file[k]]_vars

\* C17: a tick of a monitor starts its fetch only when no other tick of the
\* same monitor is between its fetch and its save.
C17_TicksOfOneWatchAreSequential ==
    [][\A t \in DOMAIN web :
          (web[t].pc = "loop" /\ web'[t].pc = "request") =>
             \A u \in DOMAIN web \ {t} :
                ~(web[u].mid = web[t].mid /\ web[u].pc = "request")]_vars

(***************************************************************************)
(* The alerted flag                                                        *)
(***************************************************************************)
\* C18: after every tick the alerted flag, when set, is the last seen id; it
\* is not set after a fetched tick that found no poll, nor after one that
\* found a new poll that is not accepting.
C18_LatchFollowsLastSeen ==
    /\ TickEnded =>
          (Watch.state.alerted_accepting_for_id # None =>
              Watch.state.alerted_accepting_for_id = Watch.state.last_seen_id)
    /\ (Fetched /\ Latest.id = None) => Watch.state.alerted_accepting_for_id = None
    /\ (Fetched /\ Latest.id # None /\ Latest.id # tick.pre_last /\ ~Latest.accepting) =>
          Watch.state.alerted_accepting_for_id = None

(***************************************************************************)
(* extract_activity                                                        *)
(***************************************************************************)
\* pollwatch_phone.extract_activity has returned for the probed markup.
PhoneExtracted == probe.pc = "pollwatch_phone"

\* C19: for a markup with the waiting hint and no respond frame,
\* pollwatch_phone.extract_activity returns (None, False, None), whatever
\* else the markup holds.
C19_WaitingShortCircuits ==
    (PhoneExtracted /\ probe.html.waiting /\ ~respond_present(probe.html)) =>
        probe.result = Extraction(None, FALSE, None)

\* C19: for a markup with the waiting hint, no respond frame and no match of
\* an id pattern, pollwatch_phone.extract_activity returns (None, False, None),
\* whatever hints and forms the markup holds; when an id pattern matches, the
\* waiting hint does not end the extraction and the id is returned.
C19_WaitingWithoutIdShortCircuits ==
    (PhoneExtracted /\ probe.html.waiting /\ ~respond_present(probe.html)) =>
        IF \A p \in PatternNames : probe.html.marks[p] = None
        THEN probe.result = Extraction(None, FALSE, None)
        ELSE probe.result.id # None

\* A waiting screen that also holds an accepting phrase and a response form
\* was extracted as no activity.
C19_Witness ==
    /\ PhoneExtracted
    /\ probe.html.waiting /\ probe.html.hint /\ probe.html.forms
    /\ ~respond_present(probe.html)
    /\ probe.result = Extraction(None, FALSE, None)

\* The id patterns by priority: choice-poll root, text-poll submissions,
\* question-response action path, the two respond-frame sources, then the
\* generic attribute, the hidden field and the JSON bootstrap.
Priority ==
    <<"response_root_question", "all_submissions_question", "action_questions_responses",
      "src_multiple_choice_polls_respond", "src_text_polls_respond",
      "data_activity_id", "name_activity_id_value", "json_activityId">>

\* C20: the id pollwatch_phone.extract_activity returns is the capture of the
\* first pattern, by priority, that matches the markup, whatever patterns of
\* lower priority capture; it is None only when no pattern matches.
C20_FirstPatternWins ==
    PhoneExtracted =>
        /\ \A i \in 1..Len(Priority) :
              (/\ probe.html.marks[Priority[i]] # None
               /\ \A j \in 1..(i - 1) : probe.html.marks[Priority[j]] = None) =>
                  probe.result.id = probe.html.marks[Priority[i]]
        /\ probe.result.id = None <=>
              \A i \in 1..Len(Priority) : probe.html.marks[Priority[i]] = None

\* Two patterns matched with different ids and the one of higher priority won.
C20_Witness ==
    /\ PhoneExtracted
    /\ probe.html.marks["all_submissions_question"] = "41"
    /\ probe.html.marks["data_activity_id"] = "42"
    /\ probe.html.waiting
    /\ probe.result.id = "41"

\* web_app.extract_activity has returned for the probed markup.
WebExtracted == probe.pc = "web_app"

\* The signals of an open poll in the probed markup: a phrase of the hint
\* vocabulary, a response form or button, a respond frame.
KeywordSignal == probe.html.hint
FormSignal == probe.html.forms \/ probe.html.marks["action_questions_responses"] # None
FrameSignal ==
    \/ probe.html.frame
    \/ probe.html.marks["src_multiple_choice_polls_respond"] # None
    \/ probe.html.marks["src_text_polls_respond"] # None

NoIdMark == \A p \in PatternNames : probe.html.marks[p] = None

\* C21: when extract_activity does not return early for the waiting screen,
\* its accepting flag is true exactly when the markup holds a hint phrase, a
\* response form marker or a respond frame marker; so it is in pollwatch_phone
\* and in web_app.
C21_AcceptingIffSignal ==
    /\ (/\ PhoneExtracted
        /\ ~(NoIdMark /\ probe.html.waiting /\ ~FrameSignal)) =>
           (probe.result.accepting <=> (KeywordSignal \/ FormSignal \/ FrameSignal))
    /\ (WebExtracted /\ ~probe.html.waiting) =>
           (probe.result.accepting <=> (KeywordSignal \/ FormSignal \/ FrameSignal))

\* web_app found a markup accepting whose only signal is a choice input.
C21_Witness ==
    /\ WebExtracted
    /\ ~probe.html.waiting /\ ~KeywordSignal /\ ~FrameSignal
    /\ probe.html.forms /\ probe.html.marks["action_questions_responses"] = None
    /\ probe.result.accepting

\* C22: in each of the four programs extract_activity returns a triple (id,
\* accepting, title) for every markup and raises nothing; for a markup with no
\* id pattern and no waiting hint the id of the triple is None.
C22_ExtractReturnsATriple ==
    probe.pc \in {"pollwatch_phone", "web_app", "pollwatch_telegram", "pollwatch_sms"} =>
        /\ DOMAIN probe.result = {"id", "accepting", "title"}
        /\ (NoIdMark /\ ~probe.html.waiting) => probe.result.id = None

(***************************************************************************)
(* The title                                                               *)
(***************************************************************************)
\* The probed markup with its heading taken out or put in.
Retitled == [probe.html EXCEPT !.heading = IF @ = None THEN "Which answer?" ELSE None]

\* The states a watch can be in when a page arrives.
HeldStates ==
    {WatchState(l, a, None, None) : l \in ActivityIds \cup {None}, a \in ActivityIds \cup {None}}

\* C28: the title decides nothing: a markup and the same markup with another
\* heading are extracted to the same id and accepting flag, and from every
\* state the watch can hold, the tick takes the same transition, sends the same
\* alert and leaves the same last_id and alerted flag for both.
C28_TitleIsCosmetic ==
    /\ PhoneExtracted =>
          LET other == extract_activity(Retitled)
          IN  /\ other.id = probe.result.id
              /\ other.accepting = probe.result.accepting
              /\ \A st \in HeldStates :
                    phone_decide(st.last_seen_id, st, other)
                       = phone_decide(st.last_seen_id, st, probe.result)
    /\ WebExtracted =>
          LET other == web_extract_activity(Retitled)
          IN  /\ other.id = probe.result.id
              /\ other.accepting = probe.result.accepting
              /\ \A st \in HeldStates :
                    web_decide(st.last_seen_id, st, other)
                       = web_decide(st.last_seen_id, st, probe.result)

\* A markup with a poll, an invitation to respond and a heading was extracted
\* with its title.
C28_Witness ==
    /\ PhoneExtracted
    /\ probe.html.heading # None
    /\ probe.result.title = probe.html.heading
    /\ probe.result.id # None /\ probe.result.accepting

(***************************************************************************)
(* Shutdown of pollwatch_phone, ticks without a transition                 *)
(***************************************************************************)
\* C27: pollwatch_phone stops cooperatively. A tick under way when the stop
\* signal arrives ends as every tick ends, asleep with its state applied and
\* saved; once stop is set it stays set and no request is sent; the loop, back
\* at its head, can leave, and having left it does nothing more.
C27_StopLetsTheTickFinish ==
    [][program = "pollwatch_phone" =>
        /\ (phone.pc = "request" /\ phone'.pc # "request") =>
              /\ phone'.pc = "sleep"
              /\ phone_file' = phone'.state
              /\ phone'.state.last_seen_id = phone'.last_id
        /\ phone.stop => phone'.stop
        /\ (phone.stop /\ phone.pc # "request") => phone'.pc # "request"
        /\ (phone.stop /\ phone.pc = "loop") => ENABLED PhoneExit
        /\ (phone.pc = "loop" /\ phone'.pc = "done") => phone.stop
        /\ phone.pc = "done" => phone' = phone /\ phone_file' = phone_file]_vars

\* The stop signal has arrived, and the tick that found a new poll has ended
\* with the poll on record and saved.
C27_Witness ==
    /\ program = "pollwatch_phone"
    /\ phone.stop /\ phone.pc = "sleep"
    /\ tick.kind = "fetched" /\ tick.alert = LIVE
    /\ phone.last_id # None
    /\ phone_file = phone.state
    /\ phone_file.last_seen_id = phone.last_id

\* The cases of a tick on a fresh page in which nothing happened: the poll on
\* record, open and already alerted for; the poll on record, locked, the
\* alerted flag not naming it; no poll on the page and none on record.
NoTransitionCase ==
    \/ /\ Latest.id # None /\ Latest.id = tick.pre_last
       /\ Latest.accepting /\ tick.pre_alerted = Latest.id
    \/ /\ Latest.id # None /\ Latest.id = tick.pre_last
       /\ ~Latest.accepting /\ tick.pre_alerted # Latest.id
    \/ /\ Latest.id = None /\ tick.pre_last = None

\* C30: a tick on a fresh page in one of the cases without a transition sends
\* no alert and leaves last_seen_id and alerted_accepting_for_id, held and
\* saved, as they were.
C30_NoTransitionChangesNothing ==
    (Fetched /\ Is2xx(tick.status) /\ NoTransitionCase) =>
        /\ tick.trans = "None"
        /\ tick.alert = "none"
        /\ Watch.last_id = tick.pre_last
        /\ Watch.state.last_seen_id = tick.pre_last
        /\ Watch.state.alerted_accepting_for_id = tick.pre_alerted
        /\ Watch.file.last_seen_id = tick.pre_last
        /\ Watch.file.alerted_accepting_for_id = tick.pre_alerted

\* The poll on record was fetched locked while the alerted flag named
\* another poll.
C30_Witness ==
    /\ program = "pollwatch_phone"
    /\ Fetched /\ Is2xx(tick.status)
    /\ Latest.id # None /\ Latest.id = tick.pre_last /\ ~Latest.accepting
    /\ tick.pre_alerted \notin {None, Latest.id}
    /\ phone.state.alerted_accepting_for_id = tick.pre_alerted

(***************************************************************************)
(* Alerts by message: pollwatch_sms and pollwatch_telegram                 *)
(***************************************************************************)
\* A tick of the message loop ends with this step.
ChanTickStep == chan.pc = "request" /\ chan'.pc = "sleep"

\* C23: a tick of pollwatch_sms that gets a 2xx response whose markup carries
\* a recognized id other than last_seen_id calls send_sms once and records the
\* id as last_seen_id; a tick that gets the id on record, open, with the
\* alerted flag not naming it, calls send_sms once.
C23_SmsAlertsOnNewOrOpenPoll ==
    [][(/\ program = "pollwatch_sms"
        /\ ChanTickStep
        /\ chan'.log.kind \in {"fetched", "exception"}
        /\ chan'.log.id # None) =>
          /\ chan'.log.id # chan.last_id =>
                /\ chan'.log.sends = 1
                /\ chan'.last_id = chan'.log.id
                /\ chan'.state.last_seen_id = chan'.log.id
          /\ (/\ chan'.log.id = chan.last_id
              /\ chan'.log.accepting
              /\ chan.state.alerted_accepting_for_id # chan'.log.id) =>
                chan'.log.sends = 1]_vars

\* The state a tick of pollwatch_telegram leaves when the message is delivered.
TelegramDelivered(c, id, accepting) ==
    telegram_decide(c.last_id, c.state, Extraction(id, accepting, None))

\* C25: a tick of pollwatch_telegram whose delivery fails leaves last_seen_id
\* and alerted_accepting_for_id, held and saved, as a delivered message would
\* have left them, and the saved record holds the tokens of the loop.
C25_DeliveryFailureIsContained ==
    [][(/\ program = "pollwatch_telegram"
        /\ ChanTickStep
        /\ chan'.log.error = "RuntimeError") =>
          LET o == TelegramDelivered(chan, chan'.log.id, chan'.log.accepting)
          IN  /\ chan'.last_id = o.last_id
              /\ chan'.state.last_seen_id = o.state.last_seen_id
              /\ chan'.state.alerted_accepting_for_id = o.state.alerted_accepting_for_id
              /\ chan'.file = chan'.state
              /\ chan'.file.etag = chan'.etag
              /\ chan'.file.last_modified = chan'.last_modified]_vars

(***************************************************************************)
(* Calls of an alerting tick, start of pollwatch_phone                     *)
(***************************************************************************)
\* The threads of the fan-out at work for this number.
ThreadsFor(c, num) == {i \in DOMAIN c.threads : c.threads[i].to = num}

Recipients == {env.to_number[i] : i \in DOMAIN env.to_number}

C26_StartNeedsEveryField ==
    phone.pc \notin {"start", "exit"} =>
        /\ env.url /\ env.account_sid /\ env.auth_token /\ env.from_number
        /\ env.to_number # <<>>
        /\ env.twiml_url

(***************************************************************************)
(* pollwatch_phone against pollwatch_telegram                              *)
(***************************************************************************)
\* C29: fed the same extraction results from the same empty state,
\* pollwatch_phone and pollwatch_telegram alert on the same ticks, for the
\* same reason, and hold the same last_seen_id and alerted_accepting_for_id
\* after every tick.
C29_PhoneDecidesAsTelegram ==
    /\ tick.alert = chan.log.alert
    /\ phone.last_id = chan.last_id
    /\ phone.state.last_seen_id = chan.state.last_seen_id
    /\ phone.state.alerted_accepting_for_id = chan.state.alerted_accepting_for_id

(***************************************************************************)
(* Acceptance edges                                                        *)
(***************************************************************************)
\* C31: in pollwatch_phone, a fetched tick that sees a poll accepting, when
\* the fetched tick before it saw the same poll not accepting, sends an alert.
C31_NoMissedAcceptanceEdge ==
    (/\ program = "pollwatch_phone"
     /\ Len(hist) >= 2
     /\ Latest.id # None /\ Latest.accepting
     /\ Previous.id = Latest.id /\ ~Previous.accepting) =>
        Latest.alert # "none"

(***************************************************************************)
(* A monitor started without the Twilio settings                           *)
(***************************************************************************)
\* C32: with a Twilio setting missing, no thread of web_app enters the loop,
\* so nothing is polled and no call is made; no monitor is ever "running";
\* the thread of a registered monitor marks it "error" and ends; and an entry
\* marked "error" stays so until a stop request deletes it or a start request
\* registers the monitor anew.
C32_MissingCredentialMeansError ==
    [][~env.twilio =>
        /\ \A t \in DOMAIN web : web'[t].pc \in {"idle", "spawned", "done"}
        /\ \A m \in DOMAIN active_monitors' :
              active_monitors'[m].status \in {"starting", "error"}
        /\ \A t \in DOMAIN web :
              (/\ web[t].pc = "spawned" /\ web'[t].pc # "spawned"
               /\ web[t].mid \in DOMAIN active_monitors) =>
                 /\ web[t].mid \in DOMAIN active_monitors'
                 /\ active_monitors'[web[t].mid].status = "error"
        /\ \A m \in DOMAIN active_monitors :
              active_monitors[m].status = "error" =>
                 \/ m \in DOMAIN active_monitors' /\ active_monitors'[m].status = "error"
                 \/ /\ m \notin DOMAIN active_monitors'
                    /\ api' = Reply("stop", m, TRUE, "none")
                 \/ /\ api' = Reply("start", m, TRUE, "none")
                    /\ active_monitors'[m].status = "starting"
                    /\ \E t \in DOMAIN web : web[t].pc = "idle" /\ web'[t] = SpawnedThread(m)]_vars

\* A monitor was started without the Twilio settings: its thread has ended
\* and its entry says "error".
C32_Witness ==
    /\ program = "web_app"
    /\ ~env.twilio
    /\ \E t \in DOMAIN web :
          /\ web[t].pc = "done"
          /\ web[t].mid \in DOMAIN active_monitors
          /\ active_monitors[web[t].mid].status = "error"
          /\ owner[web[t].mid] = t

(***************************************************************************)
(* Restart                                                                 *)
(***************************************************************************)
\* C33: when a watch is stopped and started again, and the first page it
\* fetches after the restart shows the poll and the accepting flag of the
\* last page fetched before it, that tick sends no alert.
C33_RestartDoesNotAlertAgain ==
    (/\ Len(hist) >= 3
     /\ Previous = RestartMark
     /\ BeforePrevious # RestartMark /\ Latest # RestartMark
     /\ Latest.id # None
     /\ Latest.id = BeforePrevious.id
     /\ Latest.accepting = BeforePrevious.accepting) =>
        Latest.alert = "none"

(***************************************************************************)
(* Listing the monitors                                                    *)
(***************************************************************************)
\* C34: a list request never fails, whatever start requests, stop requests
\* and ending threads do to the registry while it is served, and what it
\* returns names only monitors that are or were registered.
C34_ListNeverFails ==
    /\ listing.pc # "RuntimeError"
    /\ listing.pc = "returned" => listing.monitors \subseteq MgrMonitorIds

====
